---- MODULE Spec2Model ----
(***************************************************************************)
(* Paper lifecycle state machine of the Crawler_Extractor pipeline and the *)
(* batch runners that drive it: the papers table behind PaperRepository,   *)
(* the attempt gate, the four primary stage functions, the PGX extraction  *)
(* stage and its claim loop.                                               *)
(***************************************************************************)
EXTENDS Integers, Sequences, FiniteSets, TLC

\* ------------------------------------------------------------------------
\* Bounds of the model
\* ------------------------------------------------------------------------
NumPapers == 2      \* rows of the papers table
NumSeeded == 1      \* rows of the table that the primary workflow works on
NumWorkers == 2     \* worker threads of the primary workflow
NumRunners == 2     \* concurrent process_pgx_extraction_batch runs
MaxBatch == 2       \* largest batch_size handed to a PGX run
MaxRows == 1        \* largest row list returned by the PGX extractor
MaxInvocations == 3 \* stage invocations the primary runners of a behaviour start
MaxOutcomes == 2    \* outcomes the PGX runs of a behaviour are asked for
MaxLen == 3         \* longest list handed to filter_processable
MaxCitations == 2   \* longest citation list the extractor returns
MaxLinks == 2       \* longest link list the extractor returns
MaxPasses == 4      \* batch runs of a behaviour of the run specification
MaxAnswers == 5     \* answers of builder.execute() a call of _execute can meet

\* ------------------------------------------------------------------------
\* Program constants
\* ------------------------------------------------------------------------
MAX_PROCESSING_ATTEMPTS == 2
MAX_TRANSIENT_RETRIES == 3
_FETCH_LIMIT == 100
score_threshold == 1

PDF_AVAILABLE == "PDF Available"
TEXT_AVAILABLE == "Text Available"
SCORED == "Scored"
PROCESSED == "Processed"
PROCESSED_LOW_SCORE == "Processed (Low Score)"
PDF_NOT_AVAILABLE == "PDF Not Available"
FAILED == "Failed"
P1 == "P1"
P1_WIP == "P1WIP"
P1_SUCCESS == "P1Success"
P1_FAILURE == "P1Failure"

PaperState ==
  {PDF_AVAILABLE, TEXT_AVAILABLE, SCORED, PROCESSED, PROCESSED_LOW_SCORE,
   PDF_NOT_AVAILABLE, FAILED, P1, P1_WIP, P1_SUCCESS, P1_FAILURE}

None == "None"
NoneInt == -1       \* a numeric column holding None

BLOCKED_SOURCE_HOSTS == {"hdl.handle.net"}

STATE_FOR_STAGE ==
  [pdf_acquisition |-> PDF_NOT_AVAILABLE,
   text_extraction |-> PDF_AVAILABLE,
   scoring |-> TEXT_AVAILABLE,
   citations |-> SCORED]

STAGE_SEQUENCE == <<"pdf_acquisition", "text_extraction", "scoring", "citations">>

StageNames == {STAGE_SEQUENCE[i] : i \in 1..Len(STAGE_SEQUENCE)}

Papers == 1..NumPapers
Workers == 1..NumWorkers
Runners == 1..NumRunners
Scores == 0..1

\* ------------------------------------------------------------------------
\* Small helpers
\* ------------------------------------------------------------------------
Merge(f, g) ==
  [k \in (DOMAIN f) \cup (DOMAIN g) |-> IF k \in DOMAIN g THEN g[k] ELSE f[k]]

Restrict(f, S) == [k \in S |-> f[k]]

Take(s, n) == IF Len(s) <= n THEN s ELSE SubSeq(s, 1, n)

\* ------------------------------------------------------------------------
\* PaperRepository: the papers table is a function from id to row
\* ------------------------------------------------------------------------

\* create_pdf_available: the row a seed upload inserts
create_pdf_available(id, title) ==
  [id |-> id, title |-> title, status |-> PDF_AVAILABLE, attempts |-> 0,
   source_uri |-> "storage", text_uri |-> None, score |-> NoneInt,
   reason |-> None, metadata |-> {}, link_url |-> None,
   parent_id |-> 0, level |-> 1, seed_number |-> 1]

\* an insert that drops the lineage it is handed
create_pdf_placeholder_unlinked(id, title, parent_id, level, seed_number, link_url) ==
  [id |-> id, title |-> title, status |-> PDF_NOT_AVAILABLE, attempts |-> 0,
   source_uri |-> "pending", text_uri |-> None, score |-> NoneInt,
   reason |-> None,
   metadata |-> IF link_url = None THEN {"citation"} ELSE {"link"},
   link_url |-> link_url, parent_id |-> 0, level |-> 1, seed_number |-> 1]

\* create_pdf_placeholder: the row a citation or link expansion inserts;
\* link_url is metadata["link"]["url"], which only a link expansion sets
create_pdf_placeholder(id, title, parent_id, level, seed_number, link_url) ==
  [id |-> id, title |-> title, status |-> PDF_NOT_AVAILABLE, attempts |-> 0,
   source_uri |-> "pending", text_uri |-> None, score |-> NoneInt,
   reason |-> None,
   metadata |-> IF link_url = None THEN {"citation"} ELSE {"link"},
   link_url |-> link_url,
   parent_id |-> parent_id, level |-> level, seed_number |-> seed_number]

\* rows of the table in created_at order (ids are handed out in creation order)
RowsInOrder(tbl) == [i \in 1..NumPapers |-> tbl[i]]

\* a query that forgets its state filter
fetch_any_state(tbl, state, limit) == Take(RowsInOrder(tbl), limit)

fetch_by_state(tbl, state, limit) ==
  Take(SelectSeq(RowsInOrder(tbl), LAMBDA r : r.status = state), limit)

fetch_by_state_at_level(tbl, state, limit) ==
  Take(SelectSeq(RowsInOrder(tbl), LAMBDA r : r.status = state), limit)

\* increment_attempts writes (current_attempts or 0) + 1, whatever is stored
increment_attempts(tbl, id, current_attempts) ==
  [tbl EXCEPT ![id].attempts =
     (IF current_attempts = NoneInt THEN 0 ELSE current_attempts) + 1]

\* the payload of an update_state that passes the caller's "attempts" on
update_values_unsanitized(state, updates) ==
  Merge([status |-> state, attempts |-> 0], updates)

\* the payload update_state sends: state, attempts = 0, then the updates
\* without their "attempts" key
update_values(state, updates) ==
  Merge([status |-> state, attempts |-> 0],
        Restrict(updates, (DOMAIN updates) \ {"attempts"}))

update_state(tbl, id, state, updates) ==
  [tbl EXCEPT ![id] = Merge(tbl[id], update_values(state, updates))]

NoUpdates == <<>>

save_text_reference(tbl, id, text_uri) ==
  update_state(tbl, id, TEXT_AVAILABLE, [text_uri |-> text_uri])

register_score(tbl, id, score, reason, state) ==
  update_state(tbl, id, state, [score |-> score, reason |-> reason])

\* ------------------------------------------------------------------------
\* Attempt gate
\* ------------------------------------------------------------------------
\* (paper.attempts or 0) <= MAX_PROCESSING_ATTEMPTS: the bug of a strict bound
filter_processable_strict(papersSeq) ==
  SelectSeq(papersSeq,
    LAMBDA paper :
      (IF paper.attempts = NoneInt THEN 0 ELSE paper.attempts)
        < MAX_PROCESSING_ATTEMPTS)

\* a gate that lets every record through
filter_processable_all(papersSeq) == papersSeq

filter_processable(papersSeq) ==
  SelectSeq(papersSeq,
    LAMBDA paper :
      (IF paper.attempts = NoneInt THEN 0 ELSE paper.attempts)
        <= MAX_PROCESSING_ATTEMPTS)

mark_processing_attempt(tbl, paper) ==
  increment_attempts(tbl, paper.id, paper.attempts)

\* ------------------------------------------------------------------------
\* processing_steps helpers
\* ------------------------------------------------------------------------
\* titles that start with "url:" once lower-cased
UrlTitles ==
  {"url:https://hdl.handle.net/x", "URL:https://HDL.handle.net/x",
   "url:https://example.org/a.pdf", "url:hdl.handle.net/x"}

\* titles of the rows the initial states hold
InitTitles == {"Paper", "url:https://hdl.handle.net/x"}

\* title[4:].strip() for the titles of the model
title_url(title) ==
  CASE title = "url:https://hdl.handle.net/x" -> "https://hdl.handle.net/x"
    [] title = "URL:https://HDL.handle.net/x" -> "https://HDL.handle.net/x"
    [] title = "url:https://example.org/a.pdf" -> "https://example.org/a.pdf"
    [] title = "url:hdl.handle.net/x" -> "hdl.handle.net/x"
    [] OTHER -> ""

\* (urlparse(url).hostname or "").lower() for the urls of the model: a url
\* without a scheme has no hostname
hostname(url) ==
  CASE url = "https://hdl.handle.net/x" -> "hdl.handle.net"
    [] url = "https://HDL.handle.net/x" -> "hdl.handle.net"
    [] url = "https://example.org/a.pdf" -> "example.org"
    [] OTHER -> ""

_is_blocked_host(url) == hostname(url) \in BLOCKED_SOURCE_HOSTS

\* the candidates of _blocked_source_url: the url of the title, then the
\* url of metadata["link"]
source_url_candidates(paper) ==
  (IF paper.title \in UrlTitles THEN <<title_url(paper.title)>> ELSE <<>>)
  \o (IF paper.link_url # None THEN <<paper.link_url>> ELSE <<>>)

\* a denylist check that looks at the title only
_blocked_title_url(paper) ==
  IF paper.title \in UrlTitles /\ _is_blocked_host(title_url(paper.title))
  THEN title_url(paper.title) ELSE None

\* the first candidate on a blocked host, or None
_blocked_source_url(paper) ==
  LET blocked == SelectSeq(source_url_candidates(paper), _is_blocked_host)
  IN IF blocked = <<>> THEN None ELSE blocked[1]

_pgx_source_ref(paper) == paper.source_uri

\* {state: stage for stage, state in STATE_FOR_STAGE.items()}
STATE_TO_STAGE ==
  [state \in {STATE_FOR_STAGE[s] : s \in StageNames} |->
     CHOOSE s \in StageNames : STATE_FOR_STAGE[s] = state]

\* a lookup that sends every actionable state to the last stage
stage_for_state_last(state) ==
  IF state \in DOMAIN STATE_TO_STAGE THEN "citations" ELSE None

stage_for_state(state) ==
  IF state \in DOMAIN STATE_TO_STAGE THEN STATE_TO_STAGE[state] ELSE None

\* ------------------------------------------------------------------------
\* State
\* ------------------------------------------------------------------------
VARIABLES
  papers,       \* the papers table: id -> row
  wk,           \* worker threads of the primary workflow
  pgx,          \* process_pgx_extraction_batch runs
  extractions,  \* pgx_extractions table: id -> number of bulk inserts
  execs,        \* executions of a stage function on a row in its current state
  invocations,  \* stage invocations started so far
  pure          \* input and result of the pure-function checks

vars == <<papers, wk, pgx, extractions, execs, invocations, pure>>

NoRow ==
  [id |-> 0, title |-> "Paper", status |-> None, attempts |-> 0,
   source_uri |-> None, text_uri |-> None, score |-> NoneInt,
   reason |-> None, metadata |-> {}, link_url |-> None,
   parent_id |-> 0, level |-> 0, seed_number |-> 0]

IdleWorker == [pc |-> "idle", stage |-> None, snap |-> NoRow, charges |-> 0]

\* no pure function has been applied
NoCall ==
  [op |-> None, seq |-> <<>>, row |-> NoRow, state |-> None,
   updates |-> NoUpdates, out |-> <<>>]

\* a process_pgx_extraction_batch run that has not been started
IdleRunner ==
  [pc |-> "start", batch_size |-> 0, snap |-> NoRow,
   charges |-> 0, queries |-> 0, claims |-> 0, outcomes |-> <<>>]

\* ------------------------------------------------------------------------
\* Stage functions.  A stage function applied to the record it is handed
\* yields the set of its possible results, one for every way its
\* collaborators can answer: the collaborator calls it made, the repository
\* write it issued (none, or one update_state), whether that write was
\* applied, and the StageOutcome it returned (or that an exception left it).
\* ------------------------------------------------------------------------
\* a stage function that sends its update of the record twice
Write_twice(state, updates) ==
  <<[state |-> state, updates |-> updates], [state |-> state, updates |-> updates]>>

Write(state, updates) == <<[state |-> state, updates |-> updates]>>

Result(calls, write, success, message) ==
  [calls |-> calls, write |-> write, applied |-> TRUE, success |-> success,
   message |-> message, raised |-> FALSE]

Raised(calls) ==
  [calls |-> calls, write |-> <<>>, applied |-> FALSE, success |-> FALSE,
   message |-> "raised", raised |-> TRUE]

\* every repository write can also fail with a RepositoryError, which no
\* stage function of the primary workflow catches
WithRepositoryFailure(results) ==
  results \cup
    {[r EXCEPT !.applied = FALSE, !.success = FALSE,
               !.message = "raised", !.raised = TRUE] :
       r \in {x \in results : x.write # <<>>}}

fetch_pdf(paper) ==
  IF _blocked_source_url(paper) # None
  THEN WithRepositoryFailure(
         {Result(<<>>, Write(FAILED, [reason |-> "blocked source host"]),
                 FALSE, "blocked source host")})
  ELSE IF (IF paper.attempts = NoneInt THEN 0 ELSE paper.attempts)
            > MAX_PROCESSING_ATTEMPTS
  THEN WithRepositoryFailure(
         {Result(<<>>,
                 Write(FAILED, [reason |-> "exceeded PDF acquisition attempts"]),
                 FALSE, "exceeded attempt limit")})
  ELSE WithRepositoryFailure(
         {Result(<<"fetch">>, <<>>, FALSE, "fetch error"),
          Result(<<"fetch">>, <<>>, FALSE, "pdf not found"),
          Result(<<"fetch", "store_pdf">>, <<>>, FALSE, "storage error"),
          Result(<<"fetch", "store_pdf">>,
                 Write(PDF_AVAILABLE,
                       [source_uri |-> "storage",
                        metadata |-> paper.metadata \cup {"acquisition"}]),
                 TRUE, "pdf stored")})

extract_text(paper) ==
  IF paper.source_uri = None
  THEN WithRepositoryFailure(
         {Result(<<"extract">>,
                 Write(FAILED, [reason |-> "Paper is missing PDF reference"]),
                 FALSE, "Paper is missing PDF reference")})
  ELSE WithRepositoryFailure(
         {Raised(<<"extract">>),
          Result(<<"extract">>, Write(FAILED, [reason |-> "PDF parse error"]),
                 FALSE, "PDF parse error"),
          Result(<<"extract">>,
                 Write(FAILED, [reason |-> "PDF parsing produced no text"]),
                 FALSE, "PDF parsing produced no text"),
          Result(<<"extract">>, Write(TEXT_AVAILABLE, [text_uri |-> "text"]),
                 TRUE, "extracted"),
          \* _insert_link_placeholders raises after the text was saved
          [Result(<<"extract">>, Write(TEXT_AVAILABLE, [text_uri |-> "text"]),
                  FALSE, "raised") EXCEPT !.raised = TRUE]})

\* a comparison that sends the boundary score to Processed (Low Score)
eligible_strict(score, threshold) == score > threshold

\* eligible = result.score >= threshold
eligible(score, threshold) == score >= threshold

score_text(paper, threshold) ==
  IF paper.text_uri = None
  THEN WithRepositoryFailure(
         {Result(<<>>, Write(FAILED, [reason |-> "Paper missing text reference"]),
                 FALSE, "paper missing text")})
  ELSE WithRepositoryFailure(
         {Raised(<<"fetch_blob">>), Raised(<<"fetch_blob", "score">>)}
         \cup
         {Result(<<"fetch_blob", "score">>,
                 Write(IF eligible(sc, threshold) THEN SCORED
                       ELSE PROCESSED_LOW_SCORE,
                       [score |-> sc, reason |-> "model reason"]),
                 TRUE, "scored") : sc \in Scores})

\* a citation stage that does not look at its preconditions
extract_citations_unguarded(paper, threshold) ==
  WithRepositoryFailure(
    {Result(<<"fetch_blob", "extract">>,
            Write(PROCESSED, [metadata |-> paper.metadata \cup {"citation_count"}]),
            TRUE, "citations created")})

\* a citation stage that leaves the record in Scored
extract_citations_keeps_scored(paper, threshold) ==
  {Result(<<"fetch_blob", "extract">>,
          Write(SCORED, [metadata |-> paper.metadata \cup {"citation_count"}]),
          TRUE, "citations created")}

extract_citations(paper, threshold) ==
  IF paper.score = NoneInt \/ paper.score < threshold
  THEN {Result(<<>>, <<>>, FALSE, "paper below threshold")}
  ELSE IF paper.text_uri = None
  THEN {Result(<<>>, <<>>, FALSE, "paper missing text")}
  ELSE WithRepositoryFailure(
         {Raised(<<"fetch_blob">>), Raised(<<"fetch_blob", "extract">>),
          Result(<<"fetch_blob", "extract">>,
                 Write(PROCESSED,
                       [metadata |-> paper.metadata \cup {"citation_count"}]),
                 TRUE, "citations created")})

\* the stage function of a stage under a threshold
StageResultsAt(stage, paper, threshold) ==
  CASE stage = "pdf_acquisition" -> fetch_pdf(paper)
    [] stage = "text_extraction" -> extract_text(paper)
    [] stage = "scoring" -> score_text(paper, threshold)
    [] stage = "citations" -> extract_citations(paper, threshold)

\* PaperProcessor._executors / the _process closures of the batch runners
StageResults(stage, paper) == StageResultsAt(stage, paper, score_threshold)

\* a repository that drops the write of a stage function
ApplyNothing(tbl, id, res) == tbl

\* the table after a stage result
ApplyResult(tbl, id, res) ==
  IF res.write # <<>> /\ res.applied
  THEN update_state(tbl, id, res.write[1].state, res.write[1].updates)
  ELSE tbl

\* ------------------------------------------------------------------------
\* Primary workflow: a worker thread takes one candidate of a runner's query
\* (Select), charges the attempt (Charge) and runs the stage function (Exec)
\* ------------------------------------------------------------------------
BatchVias == {"batch", "harness"}

Vias == BatchVias \cup {"single"}

\* the candidate list of a batch runner ("batch": process_*_batch and the
\* targeted runner, which pre-filter Scored rows by score), of
\* ProcessingHarness.run ("harness"), or the record process_single_paper
\* fetched by id, whose stage PaperProcessor infers from its state ("single":
\* no attempt filter)
CandidatesAt(tbl, stage, via, batch_size, threshold) ==
  LET fetched == fetch_by_state_at_level(tbl, STATE_FOR_STAGE[stage], batch_size)
      prefiltered == IF stage = "citations" /\ via = "batch"
                     THEN SelectSeq(fetched,
                            LAMBDA r : r.score # NoneInt /\ r.score >= threshold)
                     ELSE fetched
  IN IF via = "single"
     THEN SelectSeq(RowsInOrder(tbl), LAMBDA r : stage_for_state(r.status) = stage)
     ELSE Take(filter_processable(prefiltered), batch_size)

\* the candidate list under the configured threshold
Candidates(tbl, stage, via, batch_size) ==
  CandidatesAt(tbl, stage, via, batch_size, score_threshold)

\* executions of a stage function on row id in its current status
ExecsAfter(tbl, tblNext, id) ==
  [p \in Papers |->
     IF tblNext[p].status # tbl[p].status THEN 0
     ELSE IF p = id THEN execs[p] + 1
     ELSE execs[p]]

Select(w) ==
  /\ wk[w].pc = "idle"
  \* the pool hands the task to its first free thread
  /\ \A v \in Workers : v < w => wk[v].pc # "idle"
  /\ invocations < MaxInvocations
  /\ invocations' = invocations + 1
  /\ \E stage \in StageNames, via \in Vias, batch_size \in 1..NumPapers :
       LET cands == Candidates(papers, stage, via, batch_size)
       IN \E i \in 1..Len(cands) :
            wk' = [wk EXCEPT ![w] =
                     [pc |-> "selected", stage |-> stage, snap |-> cands[i],
                      charges |-> 0]]
  /\ UNCHANGED <<papers, pgx, extractions, execs, pure>>

\* a runner that hands the snapshot to the stage function without charging
ChargeSkipped(w) ==
  /\ wk[w].pc = "selected"
  /\ wk' = [wk EXCEPT ![w].pc = "charged"]
  /\ UNCHANGED <<papers, pgx, extractions, execs, invocations, pure>>

\* mark_processing_attempt: the write uses the attempts of the snapshot; the
\* worker goes on with the row the update returned
Charge(w) ==
  /\ wk[w].pc = "selected"
  /\ papers' = mark_processing_attempt(papers, wk[w].snap)
  /\ wk' = [wk EXCEPT ![w].pc = "charged",
                      ![w].snap = papers'[wk[w].snap.id],
                      ![w].charges = @ + 1]
  /\ UNCHANGED <<pgx, extractions, execs, invocations, pure>>

\* increment_attempts raises: the stage function is not run
ChargeFails(w) ==
  /\ wk[w].pc = "selected"
  /\ wk' = [wk EXCEPT ![w] = IdleWorker]
  /\ UNCHANGED <<papers, pgx, extractions, execs, invocations, pure>>

Exec(w) ==
  /\ wk[w].pc = "charged"
  /\ \E res \in StageResults(wk[w].stage, wk[w].snap) :
       papers' = ApplyResult(papers, wk[w].snap.id, res)
  /\ wk' = [wk EXCEPT ![w] = IdleWorker]
  /\ execs' = ExecsAfter(papers, papers', wk[w].snap.id)
  /\ UNCHANGED <<pgx, extractions, invocations, pure>>

\* the process dies after the attempt was charged, before the stage function
\* has done anything
Crash(w) ==
  /\ wk[w].pc = "charged"
  /\ wk' = [wk EXCEPT ![w] = IdleWorker]
  /\ UNCHANGED <<papers, pgx, extractions, execs, invocations, pure>>

\* ------------------------------------------------------------------------
\* PGX extraction stage
\* ------------------------------------------------------------------------

\* what the collaborators of one process_pgx_extraction call answer:
\* storage.fetch_blob, extractor.extract_pdf (rows = -1: it raised),
\* insert_pgx_extractions, the first update_state of the call and the
\* update_state of its exception handler
PgxAnswers ==
  {a \in [fetch : {"ok", "raise"}, rows : -1..MaxRows,
          insert : {"ok", "raise"}, repo1 : {"ok", "raise"},
          repo2 : {"ok", "raise"}] :
     \* an answer the call cannot ask for is left at "ok"
     /\ a.fetch = "raise" => a.rows = -1
     /\ a.rows <= 0 => a.insert = "ok"
     /\ a.rows = -1 => a.repo1 = "ok"
     /\ (a.rows > 0 /\ a.insert = "raise") => a.repo1 = "ok"
     /\ (a.rows >= 0 /\ a.insert = "ok" /\ a.repo1 = "ok") => a.repo2 = "ok"}

PgxResult(calls, write, inserted, success, message) ==
  [calls |-> calls, write |-> write, applied |-> TRUE, success |-> success,
   message |-> message, raised |-> FALSE, inserted |-> inserted]

PgxRaised(calls, write, inserted) ==
  [calls |-> calls, write |-> write, applied |-> FALSE, success |-> FALSE,
   message |-> "raised", raised |-> TRUE, inserted |-> inserted]

process_pgx_extraction(paper, pdf_bytes, ans) ==
  LET handler(calls) ==
        \* except Exception: update_state(P1_FAILURE, reason = str(exc))
        IF ans.repo2 = "ok"
        THEN PgxResult(calls, Write(P1_FAILURE, [reason |-> "exception text"]),
                       FALSE, FALSE, "pgx extraction failed")
        ELSE PgxRaised(calls, Write(P1_FAILURE, [reason |-> "exception text"]),
                       FALSE)
      fetched == IF pdf_bytes = None THEN <<"fetch_blob">> ELSE <<>>
      extracted == fetched \o <<"extract_pdf">>
  IN IF _pgx_source_ref(paper) = None
     THEN IF ans.repo1 = "ok"
          THEN PgxResult(<<>>,
                         Write(P1_FAILURE, [reason |-> "Paper missing source_uri"]),
                         FALSE, FALSE, "paper missing source_uri")
          ELSE PgxRaised(<<>>,
                         Write(P1_FAILURE, [reason |-> "Paper missing source_uri"]),
                         FALSE)
     ELSE IF pdf_bytes = None /\ ans.fetch = "raise" THEN handler(fetched)
     ELSE IF ans.rows < 0 THEN handler(extracted)
     ELSE IF ans.rows = 0
     THEN IF ans.repo1 = "ok"
          THEN PgxResult(extracted,
                         Write(P1_FAILURE, [reason |-> "No PGX samples extracted"]),
                         FALSE, FALSE, "no pgx samples extracted")
          ELSE handler(extracted \o <<"update_state">>)
     ELSE IF ans.insert = "raise"
     THEN handler(extracted \o <<"insert_pgx_extractions">>)
     ELSE IF ans.repo1 = "ok"
     THEN PgxResult(extracted \o <<"insert_pgx_extractions">>,
                    Write(P1_SUCCESS,
                          [reason |-> None,
                           metadata |-> paper.metadata \cup {"pgx_extraction_count"}]),
                    TRUE, TRUE, "pgx extraction completed")
     ELSE PgxRaised(extracted \o <<"insert_pgx_extractions">>,
                    Write(P1_SUCCESS,
                          [reason |-> None,
                           metadata |-> paper.metadata \cup {"pgx_extraction_count"}]),
                    TRUE)

\* a run an exception has left: its locals are gone
CrashedRunner == [IdleRunner EXCEPT !.pc = "crashed"]

\* a run that has returned its outcomes
ReturnedRunner == [IdleRunner EXCEPT !.pc = "done"]

\* the candidates of one loop iteration of process_pgx_extraction_batch
PgxCandidates(tbl) == filter_processable(fetch_by_state(tbl, P1, _FETCH_LIMIT))

\* process_pgx_extraction_batch is called with some batch_size; the batch
\* sizes of a behaviour add up to at most MaxOutcomes
PgxStart(r) ==
  /\ pgx[r].pc = "start"
  \* runs are numbered in the order they are started
  /\ \A q \in Runners : q < r => pgx[q].pc # "start"
  /\ \E n \in 1..MaxBatch :
       /\ invocations + n <= MaxOutcomes
       /\ invocations' = invocations + n
       /\ pgx' = [pgx EXCEPT ![r].pc = "loop", ![r].batch_size = n]
  /\ UNCHANGED <<papers, wk, extractions, execs, pure>>

\* a loop head that is off by one
LoopContinuesOffByOne(run) == Len(run.outcomes) <= run.batch_size

\* while len(outcomes) < batch_size
LoopContinues(run) == Len(run.outcomes) < run.batch_size

\* one turn of the loop head: query, filter, random.choice
PgxQuery(r) ==
  /\ pgx[r].pc = "loop"
  /\ IF ~LoopContinues(pgx[r])
     THEN pgx' = [pgx EXCEPT ![r] = ReturnedRunner]
     ELSE LET candidates == PgxCandidates(papers)
          IN IF candidates = <<>>
             THEN pgx' = [pgx EXCEPT ![r] = ReturnedRunner]
             ELSE \E i \in 1..Len(candidates) :
                    pgx' = [pgx EXCEPT ![r].pc = "selected",
                                       ![r].queries = @ + 1,
                                       ![r].snap = candidates[i],
                                       ![r].charges = 0]
  /\ UNCHANGED <<papers, wk, extractions, execs, invocations, pure>>

\* paper = repository.update_state(selected.id, PaperState.P1_WIP)
PgxClaim(r) ==
  /\ pgx[r].pc = "selected"
  /\ papers' = update_state(papers, pgx[r].snap.id, P1_WIP, NoUpdates)
  /\ pgx' = [pgx EXCEPT ![r].pc = "claimed",
                        ![r].claims = @ + 1,
                        ![r].snap = papers'[pgx[r].snap.id]]
  /\ UNCHANGED <<wk, extractions, execs, invocations, pure>>

\* _process: mark_processing_attempt on the claimed row
PgxCharge(r) ==
  /\ pgx[r].pc = "claimed"
  /\ papers' = mark_processing_attempt(papers, pgx[r].snap)
  /\ pgx' = [pgx EXCEPT ![r].pc = "charged",
                        ![r].charges = @ + 1,
                        ![r].snap = papers'[pgx[r].snap.id]]
  /\ UNCHANGED <<wk, extractions, execs, invocations, pure>>

\* what the blob prefetch of the runner hands on: the bytes, or None when the
\* row has no pdf_ref or storage.fetch_blob raised (the runner swallows it)
Prefetched(paper) ==
  IF paper.source_uri = None THEN {None} ELSE {None, "bytes"}

\* the results process_pgx_extraction can have on the row it is handed
PgxStageResults(paper) ==
  {process_pgx_extraction(paper, pdf_bytes, ans) :
     pdf_bytes \in Prefetched(paper), ans \in PgxAnswers}

\* _process: process_pgx_extraction on the row mark_processing_attempt
\* returned.  The prefetch touches nothing but the runner's locals, so its
\* result is drawn here, where it is used.
PgxStage(r) ==
  /\ pgx[r].pc = "charged"
  /\ \E res \in PgxStageResults(pgx[r].snap) :
       LET id == pgx[r].snap.id
       IN /\ papers' = ApplyResult(papers, id, res)
          /\ extractions' =
               [extractions EXCEPT ![id] = IF res.inserted THEN @ + 1 ELSE @]
          /\ pgx' = [pgx EXCEPT
                       ![r] = IF res.raised THEN CrashedRunner
                              ELSE [@ EXCEPT !.pc = "loop", !.snap = NoRow,
                                             !.outcomes = Append(@, id)]]
  /\ UNCHANGED <<wk, execs, invocations, pure>>

\* a repository call of the runner itself raises (the claim or the attempt
\* charge): the exception leaves process_pgx_extraction_batch
PgxRepositoryError(r) ==
  /\ pgx[r].pc \in {"selected", "claimed"}
  /\ pgx' = [pgx EXCEPT ![r] = CrashedRunner]
  /\ UNCHANGED <<papers, wk, extractions, execs, invocations, pure>>

\* ------------------------------------------------------------------------
\* Initial states: rows as a seed upload (PDF Available) or a citation / link
\* expansion (PDF Not Available) creates them
\* ------------------------------------------------------------------------
PrimaryInitRows(id) ==
  {create_pdf_available(id, "Paper")}
  \cup {create_pdf_placeholder(id, t, 0, 1, 1,
                                 IF t \in UrlTitles THEN title_url(t) ELSE None) :
          t \in InitTitles}

InitCommon ==
  /\ wk = [w \in Workers |-> IdleWorker]
  /\ pgx = [r \in Runners |-> IdleRunner]
  /\ extractions = [p \in Papers |-> 0]
  /\ execs = [p \in Papers |-> 0]
  /\ invocations = 0
  /\ pure = NoCall

\* the rows of the table: the first NumSeeded ids are taken
Seeded == {id \in Papers : id <= NumSeeded}

PrimaryInit ==
  /\ papers \in [Papers -> {NoRow} \cup UNION {PrimaryInitRows(id) : id \in Seeded}]
  /\ \A id \in Seeded : papers[id] \in PrimaryInitRows(id)
  /\ \A id \in Papers \ Seeded : papers[id] = NoRow
  /\ InitCommon

\* rows an operator has put into P1: one with a stored PDF, one without a
\* source reference, one whose attempts are left over from earlier stages
P1Kinds == 1..3

P1Row(id, kind) ==
  [create_pdf_available(id, "Paper") EXCEPT
     !.status = P1,
     !.source_uri = IF kind = 2 THEN None ELSE "storage",
     !.attempts = IF kind = 3 THEN MAX_PROCESSING_ATTEMPTS + 1 ELSE 0]

\* random.choice makes the rows of the pool interchangeable: the kinds are
\* laid out in one order
PgxInit ==
  /\ \E kinds \in [Papers -> P1Kinds] :
       /\ \A i, j \in Papers : i < j => kinds[i] <= kinds[j]
       /\ papers = [id \in Papers |-> P1Row(id, kinds[id])]
  /\ InitCommon

\* the table holds rows of the primary workflow or rows waiting in P1
Init == PrimaryInit \/ PgxInit

Next ==
  \/ \E w \in Workers : Select(w)
  \/ \E w \in Workers : Charge(w)
  \/ \E w \in Workers : ChargeFails(w)
  \/ \E w \in Workers : Exec(w)
  \/ \E w \in Workers : Crash(w)
  \/ \E r \in Runners : PgxStart(r)
  \/ \E r \in Runners : PgxQuery(r)
  \/ \E r \in Runners : PgxClaim(r)
  \/ \E r \in Runners : PgxCharge(r)
  \/ \E r \in Runners : PgxStage(r)
  \/ \E r \in Runners : PgxRepositoryError(r)

Spec == Init /\ [][Next]_vars

\* ------------------------------------------------------------------------
\* The pure functions of the repository and of the attempt gate, applied to
\* bounded inputs
\* ------------------------------------------------------------------------
AttemptValues == {NoneInt} \cup 0..(MAX_PROCESSING_ATTEMPTS + 2)

\* lists of records as a query returns them; the id is the list position
RecordLists ==
  UNION {[1..n -> AttemptValues] : n \in 0..MaxLen}

AsRecords(attemptsSeq) ==
  [i \in 1..Len(attemptsSeq) |->
     [create_pdf_available(i, "Paper") EXCEPT !.attempts = attemptsSeq[i]]]

\* updates dicts a caller may pass to update_state
UpdateDicts ==
  {NoUpdates,
   [attempts |-> 5],
   [attempts |-> 7, reason |-> "given"],
   [reason |-> "given", metadata |-> {"k"}],
   [status |-> FAILED, attempts |-> 1],
   [score |-> 2, attempts |-> NoneInt, text_uri |-> "text"]}

\* a stored row with a charged attempt counter
StoredRows ==
  {[create_pdf_available(1, "Paper") EXCEPT !.status = st, !.attempts = a] :
     st \in {PDF_AVAILABLE, TEXT_AVAILABLE, P1}, a \in 0..(MAX_PROCESSING_ATTEMPTS + 1)}

TableWith(row) == [p \in Papers |-> IF p = row.id THEN row ELSE NoRow]

ApplyFilterProcessable ==
  \E attemptsSeq \in RecordLists :
    /\ pure = NoCall
    /\ pure' = [NoCall EXCEPT !.op = "filter_processable",
                              !.seq = AsRecords(attemptsSeq),
                              !.out = filter_processable(AsRecords(attemptsSeq))]
    /\ UNCHANGED <<papers, wk, pgx, extractions, execs, invocations>>

ApplyUpdateState ==
  \E row \in StoredRows, state \in PaperState, updates \in UpdateDicts :
    /\ pure = NoCall
    /\ pure' = [NoCall EXCEPT
                  !.op = "update_state", !.row = row, !.state = state,
                  !.updates = updates,
                  !.out = <<update_state(TableWith(row), row.id, state, updates)[row.id]>>]
    /\ UNCHANGED <<papers, wk, pgx, extractions, execs, invocations>>

ApplyRegisterScore ==
  \E row \in StoredRows, sc \in Scores,
     state \in {SCORED, PROCESSED_LOW_SCORE} :
    /\ pure = NoCall
    /\ pure' = [NoCall EXCEPT
                  !.op = "register_score", !.row = row, !.state = state,
                  !.updates = [score |-> sc, reason |-> "model reason"],
                  !.out = <<register_score(TableWith(row), row.id, sc,
                                           "model reason", state)[row.id]>>]
    /\ UNCHANGED <<papers, wk, pgx, extractions, execs, invocations>>

ApplySaveTextReference ==
  \E row \in StoredRows :
    /\ pure = NoCall
    /\ pure' = [NoCall EXCEPT
                  !.op = "save_text_reference", !.row = row,
                  !.state = TEXT_AVAILABLE,
                  !.updates = [text_uri |-> "text"],
                  !.out = <<save_text_reference(TableWith(row), row.id, "text")[row.id]>>]
    /\ UNCHANGED <<papers, wk, pgx, extractions, execs, invocations>>

\* ------------------------------------------------------------------------
\* PaperRepository._execute
\* ------------------------------------------------------------------------

\* a transport error test that takes every exception for a transient one
_is_transient_always(message) == TRUE

\* _is_transient_transport_error, on the lower-cased message of the exception
_is_transient_transport_error(message) ==
  message \in {"server disconnected", "connection terminated",
               "connection reset", "remote protocol error", "goaway",
               "broken pipe"}

\* _map_postgrest_error: error.code is None, "23505" or another code, and
\* error.text is the set of the words the checks look for that occur in the
\* lower-cased message, details and hint of the error
_map_postgrest_error(error) ==
  LET unique == error.code \in {None, "23505"}
      topic == unique /\ "topic" \in error.text
                 /\ error.text \cap {"duplicate", "already exists"} # {}
      title == unique /\ ("papers_title_unique" \in error.text
                            \/ {"title", "duplicate"} \subseteq error.text)
  IN IF topic THEN "DuplicateTopicError"
     ELSE IF title THEN "DuplicateTitleError"
     ELSE "RepositoryError"

\* _execute(builder): answers[i] is what the i-th builder.execute() does:
\* "ok" returns the response, "postgrest" raises the PostgrestAPIError error,
\* any other value is the lower-cased message of another exception.  attempts
\* is the local counter of the loop.  The result is the number of executions
\* and the error raised (None when the response was returned).
RECURSIVE _execute(_, _, _)
_execute(answers, error, attempts) ==
  LET answer == answers[attempts + 1]
  IN IF answer = "ok" THEN [executions |-> attempts + 1, raised |-> None]
     ELSE IF answer = "postgrest"
     THEN [executions |-> attempts + 1, raised |-> _map_postgrest_error(error)]
     ELSE IF attempts >= MAX_TRANSIENT_RETRIES
             \/ ~_is_transient_transport_error(answer)
     THEN [executions |-> attempts + 1, raised |-> "RepositoryError"]
     ELSE _execute(answers, error, attempts + 1)

\* _execute called with a builder whose executions meet a list of answers
ApplyExecute ==
  /\ pure = NoCall
  /\ \E answers \in [1..MaxAnswers ->
                       {"ok", "postgrest", "server disconnected", "timed out"}],
        code \in {None, "23505", "42501"},
        text \in {{"topic", "duplicate"}, {"topic", "already exists"},
                  {"papers_title_unique", "title", "duplicate"},
                  {"topic", "title", "duplicate"}, {"duplicate"}, {}} :
       /\ (\A i \in 1..MaxAnswers : answers[i] # "postgrest")
            => code = None /\ text = {}
       /\ pure' = [op |-> "_execute", answers |-> answers,
                   error |-> [code |-> code, text |-> text],
                   ret |-> _execute(answers, [code |-> code, text |-> text], 0)]
  /\ UNCHANGED <<papers, wk, pgx, extractions, execs, invocations>>

PureInit ==
  /\ papers = [p \in Papers |-> create_pdf_available(p, "Paper")]
  /\ InitCommon

PureNext ==
  \/ ApplyFilterProcessable
  \/ ApplyUpdateState
  \/ ApplyRegisterScore
  \/ ApplySaveTextReference
  \/ ApplyExecute

SpecPure == PureInit /\ [][PureNext]_vars

\* ------------------------------------------------------------------------
\* The stage functions, PaperProcessor.run and the batch runners, applied to
\* bounded inputs
\* ------------------------------------------------------------------------

\* the keys of the metadata of the StageOutcome a stage function returns
outcome_metadata(res) ==
  CASE res.message \in {"blocked source host"} -> {"source_url"}
    [] res.message \in {"fetch error", "storage error"} -> {"error"}
    [] res.message = "pdf not found" -> {"reason"}
    [] res.message = "pdf stored" -> {"source_url", "pdf_md5"}
    [] res.message = "extracted" -> {"characters"}
    [] res.message = "scored" -> {"score", "eligible_for_citations"}
    [] res.message = "citations created" -> {"count"}
    [] OTHER -> {}

StageOutcome(paper_id, stage, success, message, metadata) ==
  [paper_id |-> paper_id, stage |-> stage, success |-> success,
   message |-> message, metadata |-> metadata]

\* the outcome a stage function returned with a result that did not raise
ReturnedOutcome(paper, stage, res) ==
  StageOutcome(paper.id, stage, res.success, res.message, outcome_metadata(res))

\* PaperProcessor.run without its try / except: the exception leaves run
run_outcome_uncaught(paper, target_stage, res) ==
  [propagated |-> res.raised,
   outcome |-> ReturnedOutcome(paper, target_stage, res)]

\* the try / except of PaperProcessor.run around the executor
run_outcome(paper, target_stage, res) ==
  [propagated |-> FALSE,
   outcome |-> IF res.raised
               THEN StageOutcome(paper.id, target_stage, FALSE,
                                 "unexpected error", {"error"})
               ELSE ReturnedOutcome(paper, target_stage, res)]

\* outcome.metadata.setdefault("duration_ms", duration_ms)
with_duration(outcome) ==
  [outcome EXCEPT !.metadata = @ \cup {"duration_ms"}]

\* a run that charges the attempt before it looks for the stage
run_charges_first(tbl, paper, target_stage) ==
  mark_processing_attempt(tbl, paper)

\* the table when run has resolved no stage: nothing was written
run_noop(tbl, paper, target_stage) == tbl

\* stage or self.stage_for_state(paper.state)
run_target_stage(paper, stage) ==
  IF stage # None THEN stage ELSE stage_for_state(paper.status)

\* what the collaborators of a call of PaperProcessor.run can answer: the
\* attempt is charged and the executor ends with one of its results, or
\* increment_attempts raises; nothing is asked when no stage is resolved
RunAnswers(tbl, paper, stage) ==
  IF run_target_stage(paper, stage) = None
  THEN {[charged |-> FALSE, res |-> <<>>]}
  ELSE {[charged |-> TRUE, res |-> <<res>>] :
          res \in StageResults(run_target_stage(paper, stage),
                               mark_processing_attempt(tbl, paper)[paper.id])}
       \cup {[charged |-> FALSE, res |-> <<>>]}

\* PaperProcessor.run(paper, stage) under an answer: the outcome, whether
\* the executor was called, whether an exception left run, and the table
\* afterwards
PaperProcessor_run(tbl, paper, stage, ans) ==
  LET target_stage == run_target_stage(paper, stage)
      marked == mark_processing_attempt(tbl, paper)
      updated == marked[paper.id]
      caught == run_outcome(updated, target_stage, ans.res[1])
  IN IF target_stage = None
     THEN [outcome |-> StageOutcome(paper.id, "noop", FALSE,
                                    "No actionable stage", {}),
           executed |-> FALSE, propagated |-> FALSE,
           tbl |-> run_noop(tbl, paper, target_stage)]
     ELSE IF ~ans.charged
     \* increment_attempts raises, outside the try
     THEN [outcome |-> StageOutcome(paper.id, target_stage, FALSE, "raised", {}),
           executed |-> FALSE, propagated |-> TRUE, tbl |-> tbl]
     ELSE [outcome |-> with_duration(caught.outcome),
           executed |-> TRUE, propagated |-> caught.propagated,
           tbl |-> ApplyResult(marked, paper.id, ans.res[1])]

\* A batch run over its candidate list.  pick[i] is the result of the stage
\* function on candidate i.  The sequential loop stops at the first
\* exception, which leaves the runner; the pool runs every submitted task
\* and future.result() re-raises the exception of a task.  The harness hands
\* PaperProcessor.run to the loop, which catches the exception of the stage
\* (caught).
RECURSIVE RunBatch(_, _, _, _, _, _, _, _)
RunBatch(tbl, stage, cands, pick, pool, caught, i, acc) ==
  IF i > Len(cands) THEN [acc EXCEPT !.tbl = tbl]
  ELSE LET marked == mark_processing_attempt(tbl, cands[i])
           after == ApplyResult(marked, cands[i].id, pick[i])
           ran == run_outcome(marked[cands[i].id], stage, pick[i])
           escapes == pick[i].raised /\ ~caught
           outcome == IF caught THEN with_duration(ran.outcome)
                      ELSE ran.outcome
           seen == [acc EXCEPT !.processed = @ \cup {cands[i].id},
                               !.executed = Append(@, cands[i].id)]
       IN IF escapes /\ ~pool
          THEN [seen EXCEPT !.raised = TRUE, !.outcomes = <<>>, !.tbl = after]
          ELSE IF escapes
          THEN RunBatch(after, stage, cands, pick, pool, caught, i + 1,
                        [seen EXCEPT !.raised = TRUE])
          ELSE RunBatch(after, stage, cands, pick, pool, caught, i + 1,
                        [seen EXCEPT !.outcomes = Append(@, outcome)])

\* process_*_batch ("batch") and ProcessingHarness.run ("harness"): query,
\* filter, then the loop or the pool; a run that raised returns no outcomes
process_batch(tbl, stage, via, batch_size, max_workers, pick) ==
  LET cands == Candidates(tbl, stage, via, batch_size)
      pool == ~(max_workers <= 1 \/ Len(cands) = 1)
      run == RunBatch(tbl, stage, cands, pick, pool, via = "harness", 1,
                      [raised |-> FALSE, outcomes |-> <<>>, processed |-> {},
                       executed |-> <<>>, tbl |-> tbl])
  IN IF run.raised THEN [run EXCEPT !.outcomes = <<>>] ELSE run

\* a call of progress_callback or completion_callback of a batch runner
Callback(name, paper) == [callback |-> name, paper_id |-> paper.id]

\* the callbacks of the sequential loop from candidate i on: progress, then
\* _process, then completion; an exception of _process ends the loop
RECURSIVE LoopCallbacks(_, _, _)
LoopCallbacks(cands, pick, i) ==
  IF i > Len(cands) THEN <<>>
  ELSE IF pick[i].raised THEN <<Callback("progress", cands[i])>>
  ELSE <<Callback("progress", cands[i]), Callback("completion", cands[i])>>
         \o LoopCallbacks(cands, pick, i + 1)

\* a pool whose completion callbacks fire in submission order
PoolCompletionsInOrder(cands, pick, order, k) ==
  [i \in 1..Len(cands) |-> Callback("completion", cands[i])]

\* the completion callbacks of the as_completed loop from the k-th completed
\* future on; future.result() re-raises the exception of a task
RECURSIVE PoolCompletions(_, _, _, _)
PoolCompletions(cands, pick, order, k) ==
  IF k > Len(order) THEN <<>>
  ELSE IF pick[order[k]].raised THEN <<>>
  ELSE <<Callback("completion", cands[order[k]])>>
         \o PoolCompletions(cands, pick, order, k + 1)

\* the callbacks of a run in the order they fire; order is the order in
\* which the futures of the pool complete.  ProcessingHarness.run takes no
\* callback.
batch_callbacks(via, cands, pick, pool, order) ==
  IF via = "harness" \/ cands = <<>> THEN <<>>
  ELSE IF ~pool THEN LoopCallbacks(cands, pick, 1)
  ELSE [i \in 1..Len(cands) |-> Callback("progress", cands[i])]
         \o PoolCompletions(cands, pick, order, 1)

\* the candidate queries of a run: ProcessingHarness.run returns before its
\* query when max_steps <= 0
run_queries(via, batch_size) ==
  IF via = "harness" /\ batch_size <= 0 THEN 0 ELSE 1

\* the batch runners process_pipeline_batch calls, in call order, with the
\* key of their outcomes in the dict it returns
PIPELINE_RUNNERS ==
  <<[key |-> "text", stage |-> "text_extraction"],
    [key |-> "scoring", stage |-> "scoring"],
    [key |-> "citations", stage |-> "citations"],
    [key |-> "pdf_acquisition", stage |-> "pdf_acquisition"]>>

\* lowest_active_level: the lowest level of a row in PDF Available, Text
\* Available or Scored; 0 when there is none or when the query raises
lowest_active_level(tbl, raises) ==
  LET active == {p \in Papers :
                   tbl[p].status \in {PDF_AVAILABLE, TEXT_AVAILABLE, SCORED}}
  IN IF raises \/ active = {} THEN 0
     ELSE CHOOSE lv \in {tbl[p].level : p \in active} :
            \A p \in active : lv <= tbl[p].level

\* the "or" of target_level evaluates repository.lowest_active_level() only
\* when no level was passed and the cached level is None or 0
queries_lowest_active_level(level, cached_level) ==
  level = NoneInt /\ (cached_level = NoneInt \/ cached_level = 0)

\* a resolution that does not look at the cached level
target_level_uncached(level, cached_level, lowest_level) ==
  IF level # NoneInt THEN level ELSE lowest_level

\* level if level is not None
\* else services.current_processing_level() or repository.lowest_active_level()
target_level(level, cached_level, lowest_level) ==
  IF level # NoneInt THEN level
  ELSE IF cached_level # NoneInt /\ cached_level # 0 THEN cached_level
  ELSE lowest_level

\* process_pipeline_batch from its k-th runner on: each runner is called with
\* the table the runner before it left; an exception of a runner leaves
\* process_pipeline_batch.  picks[k] holds the stage results the k-th runner
\* meets.
RECURSIVE PipelineFrom(_, _, _, _, _, _, _)
PipelineFrom(tbl, batch_size, max_workers, lvl, picks, k, acc) ==
  IF k > Len(PIPELINE_RUNNERS) THEN [acc EXCEPT !.tbl = tbl]
  ELSE LET stage == PIPELINE_RUNNERS[k].stage
           run == process_batch(tbl, stage, "batch", batch_size, max_workers,
                                picks[k])
           invoked == [acc EXCEPT
                         !.invoked = Append(@, [stage |-> stage, level |-> lvl])]
       IN IF run.raised
          THEN [invoked EXCEPT !.raised = TRUE, !.tbl = run.tbl]
          ELSE PipelineFrom(run.tbl, batch_size, max_workers, lvl, picks, k + 1,
                            [invoked EXCEPT
                               !.outcomes = Append(@, run.outcomes)])

process_pipeline_batch(tbl, batch_size, max_workers, level, cached_level, lowest_level, picks) ==
  LET lvl == target_level(level, cached_level, lowest_level)
      run == PipelineFrom(tbl, batch_size, max_workers, lvl, picks, 1,
                          [invoked |-> <<>>, outcomes |-> <<>>,
                           raised |-> FALSE, tbl |-> tbl])
  IN [processing_level |-> lvl, invoked |-> run.invoked,
      raised |-> run.raised,
      returned |-> IF run.raised THEN <<>>
                   ELSE <<[text |-> run.outcomes[1],
                           scoring |-> run.outcomes[2],
                           citations |-> run.outcomes[3],
                           pdf_acquisition |-> run.outcomes[4]]>>,
      tbl |-> run.tbl]

\* raw_text of the citations the extractor returns
RawTexts == {"Smith 2020", "SMITH 2020", " Jones 2019 ", ""}

\* (citation.raw_text or "").strip()[:255] or "Citation"
citation_title(raw_text) ==
  CASE raw_text = " Jones 2019 " -> "Jones 2019"
    [] raw_text = "" -> "Citation"
    [] OTHER -> raw_text

\* a key that tells titles apart by their case
exact_title(title) == title

\* title.casefold()
casefold(title) ==
  CASE title \in {"Smith 2020", "SMITH 2020"} -> "smith 2020"
    [] title = "Jones 2019" -> "jones 2019"
    [] title = "Citation" -> "citation"

\* What the repository answers to one create_pdf_placeholder call.  _execute
\* sends the insert again after a transient transport error, with the same
\* id: "created" returns the inserted row; "duplicate" is a
\* DuplicateTitleError or DuplicateTopicError (another row holds the title);
\* "papers_pkey" is the primary-key error of a resend whose first
\* transmission was committed (the row exists); "server disconnected" is a
\* transport error after the last resend; "error" is any other
\* RepositoryError.
CreateAnswers ==
  {"created", "duplicate", "papers_pkey", "server disconnected", "error"}

\* _insert_citations from citation i on: acc holds the titles seen, the
\* titles create_pdf_placeholder was called with, the rows this call
\* inserted, the counter and whether a RepositoryError left the loop
RECURSIVE InsertFrom(_, _, _, _, _)
InsertFrom(paper, citations, answers, i, acc) ==
  IF i > Len(citations) THEN acc
  ELSE LET title == citation_title(citations[i])
           normalized == casefold(title)
           row == create_pdf_placeholder(paper.id + Len(acc.created) + 1, title,
                                         paper.id, paper.level + 1,
                                         paper.seed_number, None)
           called == [acc EXCEPT !.seen_titles = @ \cup {normalized},
                                 !.calls = Append(@, title)]
       IN IF normalized \in acc.seen_titles
          THEN InsertFrom(paper, citations, answers, i + 1, acc)
          ELSE IF answers[i] = "created"
          THEN InsertFrom(paper, citations, answers, i + 1,
                          [called EXCEPT !.created = Append(@, row),
                                         !.inserted = @ + 1])
          ELSE IF answers[i] = "papers_pkey"
          THEN InsertFrom(paper, citations, answers, i + 1,
                          [called EXCEPT !.created = Append(@, row)])
          ELSE IF answers[i] \in {"duplicate", "server disconnected"}
          THEN InsertFrom(paper, citations, answers, i + 1, called)
          ELSE [called EXCEPT !.raised = TRUE]

_insert_citations(paper, citations, answers) ==
  InsertFrom(paper, citations, answers, 1,
             [seen_titles |-> {}, calls |-> <<>>, created |-> <<>>,
              inserted |-> 0, raised |-> FALSE])

\* extract_citations with the citations the extractor returned and the
\* answers of the repository to the placeholder inserts: the result of the
\* stage function, the repository calls in order, the rows inserted, the
\* citation_count written to the metadata and the count of the outcome
extract_citations_with(paper, threshold, citations, answers) ==
  LET blocked == {r \in extract_citations(paper, threshold) : r.calls = <<>>}
      ins == _insert_citations(paper, citations, answers)
      creates == [i \in 1..Len(ins.calls) |-> "create_pdf_placeholder"]
  IN IF blocked # {}
     THEN [res |-> CHOOSE r \in blocked : TRUE, log |-> <<>>,
           calls |-> <<>>, created |-> <<>>, citation_count |-> NoneInt,
           count |-> NoneInt]
     ELSE IF ins.raised
     THEN [res |-> Raised(<<"fetch_blob", "extract">>), log |-> creates,
           calls |-> ins.calls, created |-> ins.created,
           citation_count |-> NoneInt, count |-> NoneInt]
     ELSE [res |-> CHOOSE r \in extract_citations(paper, threshold) : r.success,
           log |-> Append(creates, "update_state"),
           calls |-> ins.calls, created |-> ins.created,
           citation_count |-> ins.inserted, count |-> ins.inserted]

\* url of the link annotations _extract_links returns: a short one and two
\* of 260 characters that differ only in their last character
AnnotationUrls ==
  {"https://example.org/a.pdf", "https://example.org/long/a",
   "https://example.org/long/b"}

\* f"url:{link.url}"[:255]
link_title(url) ==
  CASE url = "https://example.org/a.pdf" -> "url:https://example.org/a.pdf"
    [] url \in {"https://example.org/long/a", "https://example.org/long/b"} ->
         "url:https://example.org/long/"

\* a link expansion that lets every repository error leave the loop
no_error_swallowed(answer) == FALSE

\* the except clauses of _insert_link_placeholders that end in continue
link_error_swallowed(answer) ==
  answer \in {"duplicate", "papers_pkey", "server disconnected"}

\* The unique index on papers.title: the repository does not insert a title
\* that a row inserted earlier in the same call holds.
TitleUniqueAnswers(links, answers) ==
  \A i \in 1..Len(links) :
    (\E j \in 1..(i - 1) :
       /\ link_title(links[j]) = link_title(links[i])
       /\ answers[j] \in {"created", "papers_pkey"})
      => answers[i] \notin {"created", "papers_pkey"}

\* _insert_link_placeholders from link i on: acc holds the titles
\* create_pdf_placeholder was called with, the rows this call inserted and
\* whether a RepositoryError left the loop
RECURSIVE LinksFrom(_, _, _, _, _)
LinksFrom(paper, links, answers, i, acc) ==
  IF i > Len(links) THEN acc
  ELSE LET title == link_title(links[i])
           row == create_pdf_placeholder(paper.id + Len(acc.created) + 1, title,
                                         paper.id, paper.level + 1,
                                         paper.seed_number, links[i])
           called == [acc EXCEPT !.calls = Append(@, title)]
           inserted == [called EXCEPT !.created = Append(@, row)]
       IN IF answers[i] = "created"
          THEN LinksFrom(paper, links, answers, i + 1, inserted)
          ELSE IF link_error_swallowed(answers[i])
          THEN LinksFrom(paper, links, answers, i + 1,
                         IF answers[i] = "papers_pkey" THEN inserted ELSE called)
          ELSE [called EXCEPT !.raised = TRUE]

\* a link expansion that inserts nothing
_insert_no_link_placeholders(paper, links, answers) ==
  [calls |-> <<>>, created |-> <<>>, raised |-> FALSE]

_insert_link_placeholders(paper, links, answers) ==
  LinksFrom(paper, links, answers, 1,
            [calls |-> <<>>, created |-> <<>>, raised |-> FALSE])

\* extract_text after the extractor returned a text and its links and
\* save_text_reference was applied: the result of the stage function, the
\* repository calls in order, the titles of the inserts and the rows inserted
extract_text_with(paper, store_links, links, answers) ==
  LET ins == IF store_links /\ links # <<>>
             THEN _insert_link_placeholders(paper, links, answers)
             ELSE [calls |-> <<>>, created |-> <<>>, raised |-> FALSE]
      saved == Result(<<"extract">>, Write(TEXT_AVAILABLE, [text_uri |-> "text"]),
                      TRUE, "extracted")
      creates == [i \in 1..Len(ins.calls) |-> "create_pdf_placeholder"]
  IN [res |-> IF ins.raised
              THEN [saved EXCEPT !.success = FALSE, !.message = "raised",
                                 !.raised = TRUE]
              ELSE saved,
      log |-> <<"save_text_reference">> \o creates,
      calls |-> ins.calls, created |-> ins.created]

\* thresholds a run is configured with
Thresholds == 0..(score_threshold + 1)

LinkUrls == {"https://hdl.handle.net/x", "https://example.org/a.pdf"}

\* rows in the state of a stage, as the stage function can be handed them
StageRows(id, stage) ==
  LET base == [create_pdf_available(id, "Paper") EXCEPT
                 !.status = STATE_FOR_STAGE[stage]]
  IN CASE stage = "pdf_acquisition" ->
            {[create_pdf_placeholder(id, t, 0, 1, 1, l) EXCEPT !.attempts = a] :
               t \in {"Paper"} \cup UrlTitles, l \in {None} \cup LinkUrls,
               a \in AttemptValues}
       [] stage = "text_extraction" ->
            {[base EXCEPT !.source_uri = src, !.attempts = a] :
               src \in {None, "storage"}, a \in AttemptValues}
       [] stage = "scoring" ->
            {[base EXCEPT !.text_uri = tx, !.attempts = a] :
               tx \in {None, "text"}, a \in AttemptValues}
       [] stage = "citations" ->
            {[base EXCEPT !.text_uri = tx, !.score = sc, !.attempts = a] :
               tx \in {None, "text"}, sc \in {NoneInt} \cup Scores,
               a \in AttemptValues}

\* rows a batch query of a stage returns: placeholders after zero, one or
\* two soft misses, and rows of the later stages before their first attempt
BatchRows(id, stage) ==
  {r \in StageRows(id, stage) :
     /\ r.attempts \in (IF stage = "pdf_acquisition"
                         THEN 0..MAX_PROCESSING_ATTEMPTS ELSE {0})
     /\ r.title = "Paper" /\ r.link_url = None}

\* rows of every state, as PaperProcessor.run can be handed them
RunRows ==
  UNION {StageRows(1, stage) : stage \in StageNames}
  \cup {[create_pdf_available(1, "Paper") EXCEPT !.status = st, !.attempts = a] :
          st \in PaperState, a \in {0, MAX_PROCESSING_ATTEMPTS + 1}}

\* a stage function called on a record
ApplyStage ==
  /\ pure = NoCall
  /\ \E stage \in StageNames, threshold \in Thresholds :
       \E row \in StageRows(1, stage) :
         \E res \in StageResultsAt(stage, row, threshold) :
           pure' = [op |-> "stage", stage |-> stage, row |-> row,
                    threshold |-> threshold, res |-> res,
                    after |-> ApplyResult(TableWith(row), row.id, res)[row.id]]
  /\ UNCHANGED <<papers, wk, pgx, extractions, execs, invocations>>

\* PaperProcessor.run called on a record, with or without an explicit stage
ApplyProcessorRun ==
  /\ pure = NoCall
  /\ \E row \in RunRows, stage \in StageNames \cup {None} :
       \E ans \in RunAnswers(TableWith(row), row, stage) :
         pure' = [op |-> "run", stage |-> stage, row |-> row, ans |-> ans,
                  ret |-> PaperProcessor_run(TableWith(row), row, stage, ans)]
  /\ UNCHANGED <<papers, wk, pgx, extractions, execs, invocations>>

\* a batch runner or the harness called on a table
ApplyProcessBatch ==
  /\ pure = NoCall
  /\ \E stage \in StageNames, via \in BatchVias, max_workers \in 1..2 :
       \E tbl \in [Papers -> UNION {BatchRows(p, stage) : p \in Papers}] :
         /\ \A p \in Papers : tbl[p].id = p
         /\ LET cands == Candidates(tbl, stage, via, NumPapers)
                marked(i) == mark_processing_attempt(tbl, cands[i])[cands[i].id]
            IN \E pick \in [1..Len(cands) ->
                              UNION {StageResults(stage, marked(i)) :
                                       i \in 1..Len(cands)}] :
                 /\ \A i \in 1..Len(cands) :
                      pick[i] \in StageResults(stage, marked(i))
                 /\ pure' = [op |-> "process_batch", stage |-> stage,
                             via |-> via, max_workers |-> max_workers,
                             tbl |-> tbl, cands |-> cands, pick |-> pick,
                             run |-> process_batch(tbl, stage, via, NumPapers,
                                                   max_workers, pick)]
  /\ UNCHANGED <<papers, wk, pgx, extractions, execs, invocations>>

\* rows of the table a batch query runs over: a row of the stage before its
\* first attempt, the same row with its attempts above the budget, and a row
\* in another state
QueueRows(id, stage) ==
  LET fresh == [create_pdf_available(id, "Paper") EXCEPT
                  !.status = STATE_FOR_STAGE[stage],
                  !.text_uri = IF stage \in {"scoring", "citations"}
                               THEN "text" ELSE None,
                  !.score = IF stage = "citations" THEN score_threshold
                            ELSE NoneInt]
  IN {fresh, [fresh EXCEPT !.attempts = MAX_PROCESSING_ATTEMPTS + 1],
      [fresh EXCEPT !.status = PROCESSED]}

\* the orders in which n futures can complete
CompletionOrders(n) ==
  {o \in [1..n -> 1..n] : \A i, j \in 1..n : o[i] = o[j] => i = j}

\* a batch runner or the harness called with a batch size, with the
\* callbacks it fires
ApplyBatchRun ==
  /\ pure = NoCall
  /\ \E stage \in StageNames, via \in BatchVias, max_workers \in 1..2,
        batch_size \in 0..NumPapers :
       \E tbl \in [Papers -> UNION {QueueRows(p, stage) : p \in Papers}] :
         /\ \A p \in Papers : tbl[p].id = p
         /\ LET cands == Candidates(tbl, stage, via, batch_size)
                n == Len(cands)
                pool == ~(max_workers <= 1 \/ n = 1)
                marked(i) == mark_processing_attempt(tbl, cands[i])[cands[i].id]
            IN \E pick \in [1..n -> UNION {StageResults(stage, marked(i)) :
                                             i \in 1..n}],
                  order \in IF pool /\ via = "batch" THEN CompletionOrders(n)
                            ELSE {[i \in 1..n |-> i]} :
                 /\ \A i \in 1..n : pick[i] \in StageResults(stage, marked(i))
                 /\ pure' = [op |-> "batch_run", stage |-> stage, via |-> via,
                             max_workers |-> max_workers,
                             batch_size |-> batch_size, tbl |-> tbl,
                             cands |-> cands, pick |-> pick, order |-> order,
                             queries |-> run_queries(via, batch_size),
                             run |-> process_batch(tbl, stage, via, batch_size,
                                                   max_workers, pick),
                             callbacks |-> batch_callbacks(via, cands, pick,
                                                           pool, order)]
  /\ UNCHANGED <<papers, wk, pgx, extractions, execs, invocations>>

\* the stage results a batch runner of a stage can meet on a table
PicksFor(tbl, stage, via, batch_size) ==
  LET cands == Candidates(tbl, stage, via, batch_size)
      marked(i) == mark_processing_attempt(tbl, cands[i])[cands[i].id]
  IN {pick \in [1..Len(cands) -> UNION {StageResults(stage, marked(i)) :
                                          i \in 1..Len(cands)}] :
        \A i \in 1..Len(cands) : pick[i] \in StageResults(stage, marked(i))}

\* process_pipeline_batch called on a table that holds one record before the
\* first attempt of its stage, with the level it is handed (or None), the
\* level the services cached (None or 0 before the first call) and the answer
\* of lowest_active_level
ApplyPipelineBatch ==
  /\ pure = NoCall
  /\ \E stage \in StageNames, max_workers \in 1..2, level \in {NoneInt, 2},
        cached_level \in {NoneInt, 0, 1}, lowest_level \in {1, 2} :
       LET row == CHOOSE r \in QueueRows(1, stage) :
                    r.status = STATE_FOR_STAGE[stage] /\ r.attempts = 0
           tbl == TableWith(row)
           runAt(k, t, pick) == process_batch(t, PIPELINE_RUNNERS[k].stage,
                                              "batch", NumPapers, max_workers,
                                              pick)
       IN \E p1 \in PicksFor(tbl, "text_extraction", "batch", NumPapers) :
            \E p2 \in PicksFor(runAt(1, tbl, p1).tbl, "scoring", "batch",
                             NumPapers) :
              \E p3 \in PicksFor(runAt(2, runAt(1, tbl, p1).tbl, p2).tbl,
                                 "citations", "batch", NumPapers) :
                \E p4 \in PicksFor(runAt(3, runAt(2, runAt(1, tbl, p1).tbl,
                                                  p2).tbl, p3).tbl,
                                   "pdf_acquisition", "batch", NumPapers) :
                  pure' = [op |-> "pipeline", row |-> row, tbl |-> tbl,
                           level |-> level, cached_level |-> cached_level,
                           lowest_level |-> lowest_level,
                           max_workers |-> max_workers,
                           ret |-> process_pipeline_batch(
                                     tbl, NumPapers, max_workers, level,
                                     cached_level, lowest_level,
                                     <<p1, p2, p3, p4>>)]
  /\ UNCHANGED <<papers, wk, pgx, extractions, execs, invocations>>

\* an upload that loses the seed number it is handed
upload_unseeded_pdf(id, title, level, seed_number) ==
  [create_pdf_available(id, title) EXCEPT !.level = level, !.seed_number = 0]

\* upload_seed_pdf: store_pdf, then create_pdf_available with the level and
\* the seed number of the upload
upload_seed_pdf(id, title, level, seed_number) ==
  [create_pdf_available(id, title) EXCEPT
     !.level = level, !.seed_number = seed_number]

\* the answers of a repository that accepts every insert its unique title
\* index allows
accepting_answers(links) ==
  [i \in 1..Len(links) |->
     IF \E j \in 1..(i - 1) : link_title(links[j]) = link_title(links[i])
     THEN "duplicate" ELSE "created"]

\* A seed upload followed by one batch run of each stage, pdf acquisition,
\* text extraction, scoring (with score sc) and citations, with collaborators
\* that succeed: the seed record after the upload and after each run, and the
\* placeholders the runs inserted
round_trip(level, seed_number, sc, store_links, links, citations) ==
  LET seed == upload_seed_pdf(1, "Paper", level, seed_number)
      t0 == TableWith(seed)
      charged(t) == mark_processing_attempt(t, t[1])[1]
      run(t, stage, pick) ==
        process_batch(t, stage, "batch", NumPapers, 1, pick).tbl
      t1 == run(t0, "pdf_acquisition", <<>>)
      text == extract_text_with(charged(t1), store_links, links,
                                accepting_answers(links))
      t2 == run(t1, "text_extraction", <<text.res>>)
      scored == CHOOSE r \in score_text(charged(t2), score_threshold) :
                  /\ r.success /\ r.applied
                  /\ r.write[1].updates.score = sc
      t3 == run(t2, "scoring", <<scored>>)
      cited == extract_citations_with(charged(t3), score_threshold, citations,
                                      [i \in 1..Len(citations) |-> "created"])
      t4 == run(t3, "citations", <<cited.res>>)
  IN [steps |-> <<t0[1], t1[1], t2[1], t3[1], t4[1]>>,
      children |-> text.created \o cited.created]

\* a seed uploaded and taken through the stages
ApplyRoundTrip ==
  /\ pure = NoCall
  /\ \E level \in 1..2, seed_number \in {1, 7}, store_links \in BOOLEAN,
        sc \in {x \in Scores : eligible(x, score_threshold)},
        n \in 0..MaxLinks, k \in 0..MaxCitations :
       \E links \in [1..n -> AnnotationUrls], citations \in [1..k -> RawTexts] :
         pure' = [op |-> "round_trip", level |-> level,
                  seed_number |-> seed_number, score |-> sc,
                  store_links |-> store_links, links |-> links,
                  citations |-> citations,
                  ret |-> round_trip(level, seed_number, sc, store_links,
                                     links, citations)]
  /\ UNCHANGED <<papers, wk, pgx, extractions, execs, invocations>>

\* Scored rows at a level of a seed, as extract_citations can be handed them
CitationRows ==
  {[r EXCEPT !.level = lv, !.seed_number = sn] :
     r \in {x \in StageRows(1, "citations") : x.attempts = 1},
     lv \in 1..2, sn \in {1, 7}}

\* extract_citations called on a record, with the citation list and the
\* repository answers it meets
ApplyExtractCitations ==
  /\ pure = NoCall
  /\ \E row \in CitationRows, n \in 0..MaxCitations :
       \E citations \in [1..n -> RawTexts], answers \in [1..n -> CreateAnswers] :
         pure' = [op |-> "extract_citations", row |-> row,
                  threshold |-> score_threshold,
                  citations |-> citations, answers |-> answers,
                  ret |-> extract_citations_with(row, score_threshold,
                                                 citations, answers)]
  /\ UNCHANGED <<papers, wk, pgx, extractions, execs, invocations>>

\* PDF Available rows at a level of a seed, as extract_text can be handed
\* them after the attempt was charged
LinkRows ==
  {[r EXCEPT !.level = lv, !.seed_number = sn, !.parent_id = lv - 1] :
     r \in {x \in StageRows(1, "text_extraction") :
              x.attempts = 1 /\ x.source_uri # None},
     lv \in 1..2, sn \in {1, 7}}

\* extract_text called on a record whose extraction succeeds, with the links
\* the extractor found and the repository answers to the inserts
ApplyExtractText ==
  /\ pure = NoCall
  /\ \E row \in LinkRows, store_links \in BOOLEAN, n \in 0..MaxLinks :
       \E links \in [1..n -> AnnotationUrls], answers \in [1..n -> CreateAnswers] :
         /\ TitleUniqueAnswers(links, answers)
         /\ LET ret == extract_text_with(row, store_links, links, answers)
            IN pure' = [op |-> "extract_text", row |-> row,
                        store_links |-> store_links, links |-> links,
                        answers |-> answers, ret |-> ret,
                        after |-> ApplyResult(TableWith(row), row.id,
                                              ret.res)[row.id]]
  /\ UNCHANGED <<papers, wk, pgx, extractions, execs, invocations>>

\* A stage function called with a snapshot of a record whose persisted
\* metadata another writer has changed since the snapshot was read (a stage
\* of a concurrent run, which adds its own key): the write of the stage is
\* applied to the persisted row.
ApplyStaleStage ==
  /\ pure = NoCall
  /\ \E stage \in {"pdf_acquisition", "citations"} :
       \E row \in BatchRows(1, stage) \cup {x \in CitationRows : x.level = 1 /\ x.seed_number = 1},
          added \in SUBSET {"acquisition", "citation_count", "pgx_extraction_count"} :
         /\ row.status = STATE_FOR_STAGE[stage]
         /\ LET persisted == [row EXCEPT !.metadata = @ \cup added]
            IN \E res \in StageResultsAt(stage, row, score_threshold) :
                 pure' = [op |-> "stale_stage", stage |-> stage, row |-> row,
                          persisted |-> persisted, res |-> res,
                          after |-> ApplyResult(TableWith(persisted), row.id,
                                                res)[row.id]]
  /\ UNCHANGED <<papers, wk, pgx, extractions, execs, invocations>>

\* Two successive process_pipeline_batch calls on one PipelineServices: the
\* level each call is handed, the level cached before the first call, and
\* the table (one row) and the fate of the lowest_active_level query at each
\* call.  Only lines 35-41 touch the cache: the first call stores its
\* resolved level, which is the cached level of the second call.
ApplyResolveLevels ==
  /\ pure = NoCall
  /\ \E level1 \in {NoneInt, 2}, level2 \in {NoneInt, 2},
        cached_level \in {NoneInt, 0, 1}, raises1 \in BOOLEAN, raises2 \in BOOLEAN,
        st1 \in {PDF_AVAILABLE, PROCESSED}, st2 \in {PDF_AVAILABLE, PROCESSED},
        lv1 \in 1..2, lv2 \in 1..2 :
       LET tbl1 == TableWith([create_pdf_available(1, "Paper") EXCEPT
                                !.status = st1, !.level = lv1])
           tbl2 == TableWith([create_pdf_available(1, "Paper") EXCEPT
                                !.status = st2, !.level = lv2])
           lowest1 == lowest_active_level(tbl1, raises1)
           lowest2 == lowest_active_level(tbl2, raises2)
           first == target_level(level1, cached_level, lowest1)
           second == target_level(level2, first, lowest2)
       IN pure' = [op |-> "levels", level1 |-> level1, level2 |-> level2,
                   cached_level |-> cached_level,
                   lowest1 |-> lowest1, lowest2 |-> lowest2,
                   first |-> first, cache1 |-> first,
                   queried1 |-> queries_lowest_active_level(level1, cached_level),
                   second |-> second, cache2 |-> second,
                   queried2 |-> queries_lowest_active_level(level2, first)]
  /\ UNCHANGED <<papers, wk, pgx, extractions, execs, invocations>>

StagesNext ==
  \/ ApplyStage
  \/ ApplyProcessorRun
  \/ ApplyProcessBatch
  \/ ApplyExtractCitations
  \/ ApplyExtractText
  \/ ApplyBatchRun
  \/ ApplyPipelineBatch
  \/ ApplyRoundTrip
  \/ ApplyStaleStage
  \/ ApplyResolveLevels

SpecStages == PureInit /\ [][StagesNext]_vars

\* ------------------------------------------------------------------------
\* Specification of successive runs: the table is handed from one batch run
\* or harness run to the next
\* ------------------------------------------------------------------------

\* a table that holds one record before the first attempt of its stage
RunsInit ==
  /\ \E stage \in StageNames :
       papers = TableWith(CHOOSE r \in QueueRows(1, stage) :
                            r.status = STATE_FOR_STAGE[stage] /\ r.attempts = 0)
  /\ InitCommon

\* one run of a batch runner or of the harness, from its query to its return
BatchPass ==
  /\ invocations < MaxPasses
  /\ \E stage \in StageNames, via \in BatchVias, max_workers \in 1..2 :
       \E pick \in PicksFor(papers, stage, via, NumPapers) :
         LET run == process_batch(papers, stage, via, NumPapers, max_workers,
                                  pick)
         IN /\ papers' = run.tbl
            /\ pure' = [op |-> "pass", stage |-> stage, via |-> via,
                        executed |-> run.executed, raised |-> run.raised]
  /\ invocations' = invocations + 1
  /\ UNCHANGED <<wk, pgx, extractions, execs>>

RunsNext == BatchPass

SpecRuns == RunsInit /\ [][RunsNext]_vars

\* ------------------------------------------------------------------------
\* Specification of process_single_paper: one call on one record.  pure
\* holds the locals of the call (record, stages_run, success), the attempt
\* charges it has made and, once it has returned, its SingleProcessResult.
\* ------------------------------------------------------------------------

\* record = repository.fetch_by_id(paper_id); start_state, stages_run = [],
\* success = False
SingleInit ==
  /\ \E row \in RunRows :
       /\ papers = TableWith(row)
       /\ pure = [op |-> "single", pc |-> "loop", record |-> row,
                  started_state |-> row.status, stages_run |-> <<>>,
                  success |-> FALSE, charges |-> 0,
                  finished_state |-> None, result_success |-> FALSE]
  /\ wk = [w \in Workers |-> IdleWorker]
  /\ pgx = [r \in Runners |-> IdleRunner]
  /\ extractions = [p \in Papers |-> 0]
  /\ execs = [p \in Papers |-> 0]
  /\ invocations = 0

\* one pass of the while loop, and the return that follows a break
SingleStep ==
  /\ pure.op = "single" /\ pure.pc = "loop"
  /\ LET record == pure.record
         stage_name == stage_for_state(record.status)
         returned(loc) ==
           [loc EXCEPT !.pc = "returned",
                       !.finished_state = loc.record.status,
                       !.result_success =
                         IF loc.stages_run # <<>> THEN loc.success ELSE FALSE]
     IN IF stage_name = None
        THEN papers' = papers /\ pure' = returned(pure)
        ELSE \E ans \in RunAnswers(papers, record, stage_name) :
               LET run == PaperProcessor_run(papers, record, stage_name, ans)
                   started == [pure EXCEPT !.stages_run = Append(@, stage_name)]
                   ran == [started EXCEPT !.charges = @ + 1,
                                          !.success = run.outcome.success,
                                          !.record = run.tbl[record.id]]
               IN /\ papers' = run.tbl
                  /\ pure' = IF run.propagated
                             THEN [started EXCEPT !.pc = "raised"]
                             ELSE IF ~run.outcome.success \/ stage_name = "citations"
                             THEN returned(ran)
                             ELSE ran
  /\ UNCHANGED <<wk, pgx, extractions, execs, invocations>>

SingleNext == SingleStep

\* the call runs on a thread that is not starved
SpecSingle == SingleInit /\ [][SingleNext]_vars /\ WF_vars(SingleNext)

\* ------------------------------------------------------------------------
\* Properties
\* ------------------------------------------------------------------------

\* C4: update_state writes attempts = 0 whatever the updates dict holds, an
\* "attempts" key included, and writes every other key of updates as given;
\* the state column is the requested state unless updates names it; columns
\* that updates does not name keep their value.  The same holds for
\* register_score and save_text_reference, which go through update_state.
C4_UpdateStateResetsAttempts ==
  pure.op \in {"update_state", "register_score", "save_text_reference"} =>
    LET out == pure.out[1]
        given == (DOMAIN pure.updates) \ {"attempts"}
    IN /\ out.attempts = 0
       /\ \A k \in given : out[k] = pure.updates[k]
       /\ "status" \notin given => out.status = pure.state
       /\ DOMAIN out = DOMAIN pure.row
       /\ \A k \in (DOMAIN pure.row) \ (given \cup {"status", "attempts"}) :
            out[k] = pure.row[k]

\* C4 witness: update_state on a row with charged attempts was handed an
\* updates dict whose "attempts" key is non-zero, next to another key
C4_Witness ==
  /\ pure.op = "update_state"
  /\ pure.row.attempts = MAX_PROCESSING_ATTEMPTS + 1
  /\ pure.updates = [attempts |-> 7, reason |-> "given"]
  /\ pure.out[1].reason = "given"

\* the positions of a list whose record is within the attempt budget
KeptPositions(recs) ==
  {i \in 1..Len(recs) :
     recs[i].attempts = NoneInt \/ recs[i].attempts <= MAX_PROCESSING_ATTEMPTS}

\* C5: filter_processable returns exactly the records with
\* attempts <= MAX_PROCESSING_ATTEMPTS, a missing attempts value counting as
\* 0, each once and in input order.
C5_FilterProcessableExact ==
  pure.op = "filter_processable" =>
    /\ {pure.out[j].id : j \in 1..Len(pure.out)} = KeptPositions(pure.seq)
    /\ \A j \in 1..Len(pure.out) : pure.out[j] = pure.seq[pure.out[j].id]
    /\ \A j, k \in 1..Len(pure.out) : j < k => pure.out[j].id < pure.out[k].id

\* C5 witness: a list with an exhausted record, a record with no attempts
\* value and a record at the limit was filtered
C5_Witness ==
  /\ pure.op = "filter_processable"
  /\ Len(pure.seq) = 3
  /\ pure.seq[1].attempts = MAX_PROCESSING_ATTEMPTS + 1
  /\ pure.seq[2].attempts = NoneInt
  /\ pure.seq[3].attempts = MAX_PROCESSING_ATTEMPTS
  /\ Len(pure.out) = 2

\* ------------------------------------------------------------------------
\* Primary workflow
\* ------------------------------------------------------------------------
PrimaryStates ==
  {PDF_NOT_AVAILABLE, PDF_AVAILABLE, TEXT_AVAILABLE, SCORED, PROCESSED,
   PROCESSED_LOW_SCORE, FAILED}

ActionableStates == {STATE_FOR_STAGE[s] : s \in StageNames}

TerminalStates == {PROCESSED, PROCESSED_LOW_SCORE, FAILED}

\* the transition table of the primary workflow
TransitionTable ==
  {<<PDF_NOT_AVAILABLE, PDF_AVAILABLE>>, <<PDF_NOT_AVAILABLE, FAILED>>,
   <<PDF_AVAILABLE, TEXT_AVAILABLE>>, <<PDF_AVAILABLE, FAILED>>,
   <<TEXT_AVAILABLE, SCORED>>, <<TEXT_AVAILABLE, PROCESSED_LOW_SCORE>>,
   <<TEXT_AVAILABLE, FAILED>>, <<SCORED, PROCESSED>>}

\* steps of worker w and of run r, told by the position they leave
StageEnds(w) == wk[w].pc = "charged" /\ wk'[w].pc # "charged"

Selects(r) == pgx[r].pc = "loop" /\ pgx'[r].pc = "selected"

Claims(r) == pgx[r].pc = "selected" /\ pgx'[r].pc = "claimed"

PgxStageEnds(r) == pgx[r].pc = "charged" /\ pgx'[r].pc # "charged"

Returns(r) == pgx[r].pc = "loop" /\ pgx'[r].pc = "done"

\* a worker holds row p between its query and the end of its stage function
InFlight(p) ==
  \E w \in Workers : wk[w].pc \in {"selected", "charged"} /\ wk[w].snap.id = p

\* C1: every state change of a record of the primary workflow is an edge of
\* the transition table, whatever snapshots the concurrent workers hold.
C1_TransitionTable ==
  [][\A p \in Papers :
       (papers[p].status \in PrimaryStates
        /\ papers'[p].status # papers[p].status)
         => <<papers[p].status, papers'[p].status>> \in TransitionTable]_vars

\* C2: once the persisted state of a record is Processed, Processed (Low
\* Score) or Failed, no step changes it.
C2_TerminalStable ==
  [][\A p \in Papers :
       papers[p].status \in TerminalStates
         => papers'[p].status = papers[p].status]_vars

\* C3: a stage function runs at most MAX_PROCESSING_ATTEMPTS + 1 times on a
\* record while the record stays in one state, and a record whose persisted
\* attempts exceed MAX_PROCESSING_ATTEMPTS does not remain in an actionable
\* state once no worker is working on it.
C3_RetryBudget ==
  \A p \in Papers :
    /\ execs[p] <= MAX_PROCESSING_ATTEMPTS + 1
    /\ (papers[p].attempts > MAX_PROCESSING_ATTEMPTS /\ ~InFlight(p))
         => papers[p].status \notin ActionableStates

\* C6: a stage function runs only in an invocation that has called
\* mark_processing_attempt exactly once for the record, and the record it is
\* handed is the row that call wrote, with the incremented counter.
C6_ChargedBeforeStage ==
  /\ [][\A w \in Workers :
          StageEnds(w) => (wk[w].charges = 1 /\ wk[w].snap.attempts >= 1)]_vars
  /\ [][\A r \in Runners :
          PgxStageEnds(r)
            => (pgx[r].charges = 1 /\ pgx[r].snap.attempts >= 1)]_vars

\* C6 witness: a stage function has run on a record, missed softly, and the
\* attempt charged before it is what the row holds
C6_Witness ==
  \E p \in Papers :
    /\ execs[p] = 1
    /\ papers[p].status = PDF_NOT_AVAILABLE
    /\ papers[p].attempts = 1

\* C7: a crash after the attempt charge leaves the table as the charge wrote
\* it, and a later batch run for the state of the record selects the record
\* again.
C7_CrashLeavesRetryable ==
  [][\A w \in Workers :
       Crash(w)
         => /\ papers' = papers
            /\ LET id == wk[w].snap.id
                   stage == wk[w].stage
               IN papers'[id].status = STATE_FOR_STAGE[stage]
                    => \E via \in BatchVias :
                         \E i \in 1..Len(Candidates(papers', stage, via, NumPapers)) :
                           Candidates(papers', stage, via, NumPapers)[i].id = id]_vars

\* ------------------------------------------------------------------------
\* PGX sub-workflow
\* ------------------------------------------------------------------------
PgxStates == {P1, P1_WIP, P1_SUCCESS, P1_FAILURE}

PgxTransitions ==
  {<<P1, P1_WIP>>, <<P1_WIP, P1_SUCCESS>>, <<P1_WIP, P1_FAILURE>>}

\* run r has claimed row p and has not yet resolved it
Holds(r, p) == pgx[r].pc \in {"claimed", "charged"} /\ pgx[r].snap.id = p

\* C8 as stated: a claimed record has one owner until it is resolved, and
\* its extraction rows are inserted at most once.
C8_SingleOwner ==
  \A p \in Papers :
    /\ Cardinality({r \in Runners : Holds(r, p)}) <= 1
    /\ extractions[p] <= 1

\* C8 amended: the claim is advisory.  A run selects only a record that is
\* P1 and within the attempt budget at the moment of its own query, claims
\* the record its latest query selected, never one it has already processed,
\* and one stage call inserts the rows of its own record at most once.
C8_ClaimFollowsOwnQuery ==
  [][\A r \in Runners :
       /\ Selects(r)
            => /\ pgx'[r].snap = papers[pgx'[r].snap.id]
               /\ pgx'[r].snap.status = P1
               /\ pgx'[r].snap.attempts <= MAX_PROCESSING_ATTEMPTS
       /\ Claims(r)
            => /\ pgx[r].snap.status = P1
               /\ \A j \in 1..Len(pgx[r].outcomes) :
                    pgx[r].outcomes[j] # pgx[r].snap.id
               /\ papers'[pgx[r].snap.id].status = P1_WIP
       /\ PgxStageEnds(r)
            => \A p \in Papers :
                 /\ extractions'[p] <= extractions[p] + 1
                 /\ p # pgx[r].snap.id => extractions'[p] = extractions[p]]_vars

\* C8 witness: two runs that both queried before either claimed hold the
\* same record at once
C8_Witness ==
  \E p \in Papers : \E r1, r2 \in Runners : r1 # r2 /\ Holds(r1, p) /\ Holds(r2, p)

\* C9: the only state changes of the PGX sub-workflow are P1 -> P1WIP,
\* P1WIP -> P1Success and P1WIP -> P1Failure; P1Success and P1Failure are
\* never changed again.
C9_PgxTransitions ==
  [][\A p \in Papers :
       (papers[p].status \in PgxStates
        /\ papers'[p].status # papers[p].status)
         => <<papers[p].status, papers'[p].status>> \in PgxTransitions]_vars

\* the bookkeeping of one process_pgx_extraction_batch run
LoopAccounting(run) ==
  LET n == Len(run.outcomes)
  IN /\ n <= run.batch_size
     /\ run.queries <= run.batch_size
     /\ \A j, k \in 1..n : j # k => run.outcomes[j] # run.outcomes[k]
     /\ run.pc = "loop" => (run.queries = n /\ run.claims = n)
     /\ run.pc = "selected" => (run.queries = n + 1 /\ run.claims = n)
     /\ run.pc \in {"claimed", "charged"}
          => (run.queries = n + 1 /\ run.claims = n + 1)

\* C10: a run queries once per loop iteration and claims once per processed
\* record, before the extraction work: its outcomes are for distinct records
\* and never more than batch_size, a run that returns batch_size outcomes
\* has made exactly that many queries and claims, and a run returns fewer
\* only at a query that finds no eligible P1 record.
C10_LoopAccounting ==
  /\ [](\A r \in Runners : LoopAccounting(pgx[r]))
  /\ [][\A r \in Runners :
          Returns(r)
            => \/ /\ Len(pgx[r].outcomes) = pgx[r].batch_size
                  /\ pgx[r].queries = pgx[r].batch_size
                  /\ pgx[r].claims = pgx[r].batch_size
               \/ /\ Len(pgx[r].outcomes) < pgx[r].batch_size
                  /\ PgxCandidates(papers) = <<>>]_vars
  /\ [][\A r \in Runners :
          PgxStageEnds(r) => pgx[r].claims = Len(pgx[r].outcomes) + 1]_vars

\* C10 witness: a run with batch_size 2 over a pool of two eligible P1
\* records holds two outcomes after two queries and two claims
C10_Witness ==
  \E r \in Runners :
    /\ pgx[r].pc = "loop"
    /\ pgx[r].batch_size = 2
    /\ Len(pgx[r].outcomes) = 2
    /\ pgx[r].queries = 2
    /\ pgx[r].claims = 2

\* ------------------------------------------------------------------------
\* Error handling and the stage functions (SpecStages)
\* ------------------------------------------------------------------------

\* C11: an exception of a collaborator while one record of a batch is
\* processed does not abort the batch run: the runner, sequential or with a
\* pool, processes every candidate, returns one outcome per candidate, and
\* the outcome of the record that raised is a failure.
C11_BatchSurvivesException ==
  (pure.op = "process_batch" /\ pure.via = "batch") =>
    /\ ~pure.run.raised
    /\ pure.run.processed = {pure.cands[i].id : i \in 1..Len(pure.cands)}
    /\ Len(pure.run.outcomes) = Len(pure.cands)
    /\ \A i \in 1..Len(pure.cands) :
         /\ pure.run.outcomes[i].paper_id = pure.cands[i].id
         /\ pure.pick[i].raised => ~pure.run.outcomes[i].success

\* C12: PaperProcessor.run lets no exception of the stage executor out: it
\* returns a failure outcome for the same paper and stage with the message
\* "unexpected error" and the exception text under metadata.error; and every
\* outcome it returns for an executed stage carries metadata.duration_ms.
C12_RunCatchesStageException ==
  (pure.op = "run" /\ pure.ret.executed) =>
    /\ ~pure.ret.propagated
    /\ "duration_ms" \in pure.ret.outcome.metadata
    /\ pure.ret.outcome.paper_id = pure.row.id
    /\ pure.ret.outcome.stage = run_target_stage(pure.row, pure.stage)
    /\ pure.ans.res[1].raised =>
         /\ ~pure.ret.outcome.success
         /\ pure.ret.outcome.message = "unexpected error"
         /\ "error" \in pure.ret.outcome.metadata

C12_Witness ==
  /\ pure.op = "run" /\ pure.ret.executed
  /\ pure.ans.res[1].raised
  /\ pure.ans.res[1].calls = <<"fetch_blob", "score">>
  /\ pure.ret.outcome.message = "unexpected error"
  /\ pure.ret.outcome.metadata = {"error", "duration_ms"}

\* C13: stage_for_state maps PDF Not Available, PDF Available, Text
\* Available and Scored each to one stage of its own and every other state
\* to none; PaperProcessor.run on a record whose state maps to none, called
\* without a stage, returns a "noop" outcome with success = false, writes
\* nothing to the repository and charges no attempt.
C13_NoStageIsNoop ==
  /\ \A st \in PaperState :
       IF st \in {PDF_NOT_AVAILABLE, PDF_AVAILABLE, TEXT_AVAILABLE, SCORED}
       THEN stage_for_state(st) \in StageNames
       ELSE stage_for_state(st) = None
  /\ \A a, b \in {PDF_NOT_AVAILABLE, PDF_AVAILABLE, TEXT_AVAILABLE, SCORED} :
       a # b => stage_for_state(a) # stage_for_state(b)
  /\ (/\ pure.op = "run" /\ pure.stage = None
      /\ stage_for_state(pure.row.status) = None) =>
       /\ pure.ret.outcome.stage = "noop"
       /\ ~pure.ret.outcome.success
       /\ pure.ret.outcome.paper_id = pure.row.id
       /\ ~pure.ret.executed /\ ~pure.ret.propagated
       /\ pure.ret.tbl[pure.row.id] = pure.row
       /\ pure.ret.tbl[pure.row.id].attempts = pure.row.attempts

C13_Witness ==
  /\ pure.op = "run" /\ pure.stage = None
  /\ pure.row.status = PROCESSED_LOW_SCORE
  /\ pure.row.attempts = MAX_PROCESSING_ATTEMPTS + 1
  /\ pure.ret.outcome.stage = "noop"

\* C14: fetch_pdf on a record whose title ("url:" prefix) or whose
\* metadata.link.url names a blocked host, or whose attempts already exceed
\* MAX_PROCESSING_ATTEMPTS, calls neither the fetch collaborator nor the
\* storage, issues update_state(Failed) with a reason, and returns
\* success = false (message "blocked source host" in the blocked case); the
\* record is then Failed with that reason persisted.
C14_BlockedOrExhaustedFails ==
  LET row == pure.row
      blocked ==
        \/ /\ row.title \in UrlTitles
           /\ hostname(title_url(row.title)) \in BLOCKED_SOURCE_HOSTS
        \/ /\ row.link_url # None
           /\ hostname(row.link_url) \in BLOCKED_SOURCE_HOSTS
      exhausted == row.attempts # NoneInt /\ row.attempts > MAX_PROCESSING_ATTEMPTS
  IN (pure.op = "stage" /\ pure.stage = "pdf_acquisition"
        /\ (blocked \/ exhausted)) =>
       /\ pure.res.calls = <<>>
       /\ Len(pure.res.write) = 1
       /\ pure.res.write[1].state = FAILED
       /\ "reason" \in DOMAIN pure.res.write[1].updates
       /\ pure.res.write[1].updates.reason \notin {None, ""}
       /\ ~pure.res.success
       /\ ~pure.res.raised =>
            /\ pure.after.status = FAILED
            /\ pure.after.reason = pure.res.write[1].updates.reason
            /\ blocked => pure.res.message = "blocked source host"

C14_Witness ==
  /\ pure.op = "stage" /\ pure.stage = "pdf_acquisition"
  /\ pure.row.title = "Paper"
  /\ pure.row.link_url = "https://hdl.handle.net/x"
  /\ pure.row.attempts = 1
  /\ pure.res.message = "blocked source host"
  /\ pure.after.status = FAILED

\* C15: when the fetch collaborator finds no candidate, fetch_pdf returns
\* success = false and issues no update_state: after the batch run the record
\* is still PDF Not Available with the attempts the runner charged, and a
\* later pdf-acquisition batch selects it again (its attempts do not exceed
\* the budget).
C15_SoftMissStaysSelectable ==
  /\ (pure.op = "stage" /\ pure.res.message = "pdf not found") =>
       /\ pure.res.write = <<>> /\ ~pure.res.success
       /\ pure.after = pure.row
  /\ (pure.op = "process_batch" /\ pure.stage = "pdf_acquisition") =>
       \A i \in 1..Len(pure.cands) :
         (/\ pure.cands[i].id \in pure.run.processed
          /\ pure.pick[i].message = "pdf not found") =>
           LET id == pure.cands[i].id
               later == Candidates(pure.run.tbl, "pdf_acquisition", pure.via,
                                   NumPapers)
           IN /\ pure.run.tbl[id].status = PDF_NOT_AVAILABLE
              /\ pure.run.tbl[id].attempts = pure.cands[i].attempts + 1
              /\ pure.run.tbl[id].attempts <= MAX_PROCESSING_ATTEMPTS
              /\ \E j \in 1..Len(later) : later[j].id = id

C15_Witness ==
  /\ pure.op = "process_batch" /\ pure.stage = "pdf_acquisition"
  /\ pure.via = "batch"
  /\ Len(pure.cands) >= 1
  /\ pure.cands[1].attempts = 1
  /\ pure.pick[1].message = "pdf not found"
  /\ pure.run.tbl[pure.cands[1].id].attempts = MAX_PROCESSING_ATTEMPTS
  /\ pure.run.tbl[pure.cands[1].id].status = PDF_NOT_AVAILABLE

\* C16: score_text writes Scored exactly when the score is >= the threshold
\* and Processed (Low Score) exactly when it is below (a score equal to the
\* threshold gives Scored), with success = true in both cases; and a record
\* that score_text left Scored under a threshold is not rejected as "below
\* threshold" by the pre-filter of the citation batch runner or by
\* extract_citations under the same threshold.
C16_ThresholdComparison ==
  (pure.op = "stage" /\ pure.stage = "scoring" /\ pure.res.message = "scored") =>
    LET sc == pure.res.write[1].updates.score
        T == pure.threshold
    IN /\ pure.res.success
       /\ (pure.res.write[1].state = SCORED) <=> (sc >= T)
       /\ (pure.res.write[1].state = PROCESSED_LOW_SCORE) <=> (sc < T)
       /\ pure.after.status = IF sc >= T THEN SCORED ELSE PROCESSED_LOW_SCORE
       /\ pure.after.score = sc
       /\ pure.after.status = SCORED =>
            /\ \A r \in extract_citations(pure.after, T) :
                 r.message # "paper below threshold"
            /\ Len(CandidatesAt(TableWith(pure.after), "citations", "batch",
                                1, T)) = 1

C16_Witness ==
  /\ pure.op = "stage" /\ pure.stage = "scoring"
  /\ pure.res.message = "scored"
  /\ pure.res.write[1].updates.score = pure.threshold
  /\ pure.threshold = score_threshold
  /\ pure.after.status = SCORED

\* the messages of the ExtractionError that TextExtractor.extract raises
ExtractionErrors ==
  {"Paper is missing PDF reference", "PDF parse error",
   "PDF parsing produced no text"}

\* C17: hard failures force Failed with a persisted reason.  extract_text,
\* when the extractor raises ExtractionError (missing PDF reference, parse
\* error, empty text), and score_text on a record without a text reference
\* each call update_state(Failed) with a non-empty reason and return
\* success = false; score_text does so without calling the storage or the
\* scorer.
C17_HardFailuresForceFailed ==
  /\ (pure.op = "stage" /\ pure.stage = "text_extraction") =>
       /\ (pure.row.source_uri = None /\ ~pure.res.raised) =>
            pure.res.message = "Paper is missing PDF reference"
       /\ pure.res.message \in ExtractionErrors =>
            /\ pure.res.write = Write(FAILED, [reason |-> pure.res.message])
            /\ ~pure.res.success
            /\ pure.after.status = FAILED
            /\ pure.after.reason = pure.res.message
  /\ (pure.op = "stage" /\ pure.stage = "scoring"
        /\ pure.row.text_uri = None) =>
       /\ pure.res.calls = <<>>
       /\ Len(pure.res.write) = 1
       /\ pure.res.write[1].state = FAILED
       /\ pure.res.write[1].updates.reason \notin {None, ""}
       /\ ~pure.res.success
       /\ ~pure.res.raised =>
            /\ pure.after.status = FAILED
            /\ pure.after.reason = pure.res.write[1].updates.reason

C17_Witness ==
  /\ pure.op = "stage" /\ pure.stage = "text_extraction"
  /\ pure.res.message = "PDF parsing produced no text"
  /\ pure.row.attempts = 1
  /\ pure.after.status = FAILED
  /\ pure.after.reason = "PDF parsing produced no text"

\* C18: extract_citations on a record whose score is None or below the
\* threshold, or that has no text reference, returns success = false and
\* writes nothing to the repository: the record stays Scored, no placeholder
\* is created, and neither the storage nor the citation extractor is called.
C18_StructuralBlockWritesNothing ==
  LET blocked == \/ pure.row.score = NoneInt
                 \/ pure.row.score < pure.threshold
                 \/ pure.row.text_uri = None
  IN /\ (pure.op = "stage" /\ pure.stage = "citations" /\ blocked) =>
          /\ pure.res.calls = <<>> /\ pure.res.write = <<>>
          /\ ~pure.res.success /\ ~pure.res.raised
          /\ pure.res.message \in {"paper below threshold", "paper missing text"}
          /\ pure.after = pure.row
          /\ pure.after.status = SCORED
     /\ (pure.op = "extract_citations" /\ blocked) =>
          /\ ~pure.ret.res.success /\ ~pure.ret.res.raised
          /\ pure.ret.res.calls = <<>> /\ pure.ret.res.write = <<>>
          /\ pure.ret.log = <<>>
          /\ pure.ret.created = <<>>

C18_Witness ==
  /\ pure.op = "extract_citations"
  /\ pure.row.score = pure.threshold /\ pure.row.text_uri = None
  /\ pure.citations = <<"Smith 2020", " Jones 2019 ">>
  /\ pure.answers = <<"created", "created">>
  /\ pure.ret.res.message = "paper missing text"
  /\ pure.ret.created = <<>>

\* the preconditions of extract_citations fail under the configured threshold
StructurallyBlocked(row) ==
  \/ row.score = NoneInt
  \/ row.score < score_threshold
  \/ row.text_uri = None

\* C19: a structural block of the citation stage (score below the threshold
\* or None, or no text reference) charges no attempt: the persisted attempts
\* of the record are the same after the stage invocation as before it, on
\* every call path (batch runner, harness, PaperProcessor.run).
C19_StructuralBlockChargesNothing ==
  /\ (/\ pure.op = "run" /\ pure.ret.executed
      /\ run_target_stage(pure.row, pure.stage) = "citations"
      /\ pure.row.status = SCORED
      /\ StructurallyBlocked(pure.row)) =>
       pure.ret.tbl[pure.row.id].attempts = pure.row.attempts
  /\ (pure.op = "process_batch" /\ pure.stage = "citations") =>
       \A i \in 1..Len(pure.cands) :
         (/\ pure.cands[i].id \in pure.run.processed
          /\ StructurallyBlocked(pure.cands[i])) =>
           pure.run.tbl[pure.cands[i].id].attempts = pure.cands[i].attempts

\* citations that are the same citation: equal after trimming, whatever the
\* case
CitationKey(raw_text) ==
  CASE raw_text \in {"Smith 2020", "SMITH 2020"} -> 1
    [] raw_text = " Jones 2019 " -> 2
    [] raw_text = "" -> 3

\* positions of the first occurrence of each unique citation
FirstOccurrences(citations) ==
  {i \in 1..Len(citations) :
     \A j \in 1..(i - 1) : CitationKey(citations[j]) # CitationKey(citations[i])}

\* every row the call inserted is a placeholder child of the record
PlaceholdersOf(row, created) ==
  \A k \in 1..Len(created) :
    /\ created[k].status = PDF_NOT_AVAILABLE
    /\ created[k].attempts = 0
    /\ created[k].parent_id = row.id
    /\ created[k].level = row.level + 1
    /\ created[k].seed_number = row.seed_number

\* the repository calls of a successful extract_citations: the inserts,
\* then one update_state
InsertsThenUpdate(log) ==
  /\ Len(log) >= 1
  /\ log[Len(log)] = "update_state"
  /\ \A k \in 1..(Len(log) - 1) : log[k] = "create_pdf_placeholder"

\* C20 (as stated): on success extract_citations creates one PDF Not
\* Available placeholder per unique citation, with parent_id = the record's
\* id, level = record.level + 1 and the record's seed_number, and only after
\* all insertions moves the record to Processed with metadata.citation_count
\* equal to the number of placeholders it inserted; the outcome reports the
\* same count.
C20_OnePlaceholderPerCitation ==
  (pure.op = "extract_citations" /\ pure.ret.res.success) =>
    /\ Len(pure.ret.created) = Cardinality(FirstOccurrences(pure.citations))
    /\ PlaceholdersOf(pure.row, pure.ret.created)
    /\ InsertsThenUpdate(pure.ret.log)
    /\ pure.ret.res.write[1].state = PROCESSED
    /\ pure.ret.citation_count = Len(pure.ret.created)
    /\ pure.ret.count = Len(pure.ret.created)

\* C20 (amended): on success extract_citations calls create_pdf_placeholder
\* once per unique citation (unique after trimming, whatever the case); every
\* row it inserts is a PDF Not Available child of the record at level + 1
\* with the record's seed_number; only after all the inserts it moves the
\* record to Processed; metadata.citation_count and the count of the outcome
\* are the number of create calls that returned a row, which is the number
\* of unique citations when the repository refuses none of them and is
\* smaller by one for every insert the repository answered with a duplicate
\* title or topic, a primary-key error or a disconnect.
C20_CountsReturnedInserts ==
  (pure.op = "extract_citations" /\ pure.ret.res.success) =>
    LET first == FirstOccurrences(pure.citations)
        returned == {i \in first : pure.answers[i] = "created"}
    IN /\ Len(pure.ret.calls) = Cardinality(first)
       /\ \A i \in first : pure.answers[i] # "error"
       /\ PlaceholdersOf(pure.row, pure.ret.created)
       /\ InsertsThenUpdate(pure.ret.log)
       /\ Len(pure.ret.log) = Cardinality(first) + 1
       /\ pure.ret.res.write[1].state = PROCESSED
       /\ "citation_count" \in pure.ret.res.write[1].updates.metadata
       /\ pure.ret.citation_count = Cardinality(returned)
       /\ pure.ret.count = Cardinality(returned)
       /\ Cardinality(returned) <= Len(pure.ret.created)
       /\ Len(pure.ret.created) <= Cardinality(first)
       /\ returned = first =>
            /\ Len(pure.ret.created) = Cardinality(first)
            /\ pure.ret.citation_count = Len(pure.ret.created)

C20_Witness ==
  /\ pure.op = "extract_citations" /\ pure.ret.res.success
  /\ pure.citations = <<"Smith 2020", " Jones 2019 ">>
  /\ pure.answers = <<"duplicate", "created">>
  /\ pure.row.level = 2 /\ pure.row.seed_number = 7
  /\ Len(pure.ret.created) = 1
  /\ pure.ret.created[1].title = "Jones 2019"
  /\ pure.ret.created[1].level = 3
  /\ pure.ret.citation_count = 1

\* the position, among the create calls, of the call for citation i
CallRank(citations, i) ==
  Cardinality({j \in FirstOccurrences(citations) : j <= i})

\* the first citation whose insert met a RepositoryError that is not
\* swallowed, or the length of the list plus one
StopsAt(citations, answers) ==
  LET failing == {i \in FirstOccurrences(citations) : answers[i] = "error"}
  IN IF failing = {} THEN Len(citations) + 1
     ELSE CHOOSE i \in failing : \A j \in failing : i <= j

Lineage(row) == <<row.id, row.level, row.parent_id, row.seed_number>>

\* C22: every record a citation or link expansion creates has parent_id set
\* to the expanded record, level = parent.level + 1 and the seed_number of
\* the parent, and is created in PDF Not Available with attempts 0; no stage
\* operation (a stage function, PaperProcessor.run, a batch run with its
\* attempt charges) changes the id, level, parent_id or seed_number of an
\* existing record.
C22_LineageInvariant ==
  /\ pure.op = "extract_citations" =>
       /\ PlaceholdersOf(pure.row, pure.ret.created)
       /\ \A k \in 1..Len(pure.ret.created) : pure.ret.created[k].parent_id # 0
       /\ Lineage(ApplyResult(TableWith(pure.row), pure.row.id,
                              pure.ret.res)[pure.row.id]) = Lineage(pure.row)
  /\ pure.op = "extract_text" =>
       /\ PlaceholdersOf(pure.row, pure.ret.created)
       /\ \A k \in 1..Len(pure.ret.created) : pure.ret.created[k].parent_id # 0
       /\ Lineage(pure.after) = Lineage(pure.row)
  /\ pure.op = "stage" => Lineage(pure.after) = Lineage(pure.row)
  /\ pure.op = "run" => Lineage(pure.ret.tbl[pure.row.id]) = Lineage(pure.row)
  /\ pure.op = "process_batch" =>
       \A p \in Papers : Lineage(pure.run.tbl[p]) = Lineage(pure.tbl[p])

C22_Witness ==
  /\ pure.op = "extract_text" /\ pure.store_links
  /\ pure.row.level = 2 /\ pure.row.seed_number = 7
  /\ Len(pure.ret.created) = 2
  /\ pure.ret.created[2].level = 3
  /\ pure.ret.created[2].seed_number = 7
  /\ pure.ret.created[2].parent_id = pure.row.id
  /\ pure.after.status = TEXT_AVAILABLE
  /\ pure.after.level = 2 /\ pure.after.seed_number = 7

\* the first link whose insert met a RepositoryError that is not swallowed,
\* or the length of the list plus one
LinkStopsAt(links, answers) ==
  LET failing == {i \in 1..Len(links) : answers[i] = "error"}
  IN IF failing = {} THEN Len(links) + 1
     ELSE CHOOSE i \in failing : \A j \in failing : i <= j

C24_PlaceholderErrorsSwallowed ==
  /\ (pure.op = "extract_citations" /\ pure.ret.res.calls # <<>>) =>
       LET first == FirstOccurrences(pure.citations)
           stop == StopsAt(pure.citations, pure.answers)
       IN IF stop > Len(pure.citations)
          THEN /\ pure.ret.res.success /\ ~pure.ret.res.raised
               /\ pure.ret.res.write[1].state = PROCESSED
               /\ Len(pure.ret.calls) = Cardinality(first)
               /\ pure.ret.count
                    = Cardinality({i \in first : pure.answers[i] = "created"})
               /\ pure.ret.log[Len(pure.ret.log)] = "update_state"
          ELSE /\ pure.ret.res.raised
               /\ pure.ret.res.write = <<>>
               /\ Len(pure.ret.calls) = CallRank(pure.citations, stop)
               /\ \A k \in 1..Len(pure.ret.log) :
                    pure.ret.log[k] # "update_state"
  /\ (pure.op = "extract_text" /\ pure.store_links /\ pure.links # <<>>) =>
       LET stop == LinkStopsAt(pure.links, pure.answers)
       IN /\ pure.after.status = TEXT_AVAILABLE
          /\ IF stop > Len(pure.links)
             THEN /\ pure.ret.res.success /\ ~pure.ret.res.raised
                  /\ Len(pure.ret.calls) = Len(pure.links)
                  /\ Len(pure.ret.created)
                       = Cardinality({i \in 1..Len(pure.links) :
                            pure.answers[i] \in {"created", "papers_pkey"}})
             ELSE /\ pure.ret.res.raised
                  /\ Len(pure.ret.calls) = stop

C24_Witness ==
  /\ pure.op = "extract_text" /\ pure.store_links
  /\ pure.links = <<"https://example.org/a.pdf", "https://example.org/long/a">>
  /\ pure.answers = <<"server disconnected", "created">>
  /\ Len(pure.ret.calls) = 2
  /\ Len(pure.ret.created) = 1
  /\ pure.ret.created[1].link_url = "https://example.org/long/a"
  /\ pure.ret.res.success
  /\ pure.after.status = TEXT_AVAILABLE

\* ids of the rows of a table that are in the state of the stage with
\* attempts within the budget
PassingGate(tbl, stage) ==
  {p \in Papers : /\ tbl[p].status = STATE_FOR_STAGE[stage]
                  /\ tbl[p].attempts <= MAX_PROCESSING_ATTEMPTS}

\* C25: when no record passes the Attempt Gate (none is in the target state,
\* or all of them have attempts > 2), a batch runner returns an empty list
\* and performs no attempt increment, no stage execution, no state write and
\* no progress or completion callback.
C25_EmptyBatchIsNoop ==
  (pure.op = "batch_run" /\ PassingGate(pure.tbl, pure.stage) = {}) =>
    /\ pure.run.outcomes = <<>>
    /\ ~pure.run.raised
    /\ pure.run.executed = <<>>
    /\ pure.run.tbl = pure.tbl
    /\ pure.callbacks = <<>>

C25_Witness ==
  /\ pure.op = "batch_run" /\ pure.via = "batch"
  /\ pure.stage = "text_extraction"
  /\ pure.batch_size = NumPapers
  /\ pure.tbl[1].status = PDF_AVAILABLE
  /\ pure.tbl[1].attempts = MAX_PROCESSING_ATTEMPTS + 1
  /\ pure.tbl[2].status = PROCESSED
  /\ PassingGate(pure.tbl, pure.stage) = {}
  /\ pure.run.outcomes = <<>>
  /\ pure.run.tbl = pure.tbl

\* C26: a batch runner or harness run executes the stage function exactly
\* once for each candidate of its snapshot that passes the Attempt Gate and
\* for no other record, so the number of outcomes equals the number of
\* eligible candidates and never exceeds batch_size (max_steps for the
\* harness); a harness run with max_steps <= 0 returns an empty list without
\* any repository call.
C26_OneExecutionPerCandidate ==
  pure.op = "batch_run" =>
    /\ pure.run.executed = [i \in 1..Len(pure.cands) |-> pure.cands[i].id]
    /\ \A i \in 1..Len(pure.cands) :
         pure.cands[i].id \in PassingGate(pure.tbl, pure.stage)
    /\ \A i, j \in 1..Len(pure.cands) :
         pure.cands[i].id = pure.cands[j].id => i = j
    /\ Len(pure.run.outcomes) = Len(pure.cands)
    /\ Len(pure.run.outcomes) <= pure.batch_size
    /\ (pure.via = "harness" /\ pure.batch_size <= 0) =>
         /\ pure.run.outcomes = <<>>
         /\ pure.queries = 0
         /\ pure.run.tbl = pure.tbl

\* C27: the outcome list a batch runner returns is in candidate query order:
\* the sequential loop processes the candidates one after another in query
\* order (progress, stage, completion for each), and with a pool the i-th
\* outcome returned is the outcome of the i-th candidate while the
\* completion callbacks fire in completion order, after the progress
\* callbacks of the submissions.
C27_OutcomesInQueryOrder ==
  (pure.op = "batch_run" /\ ~pure.run.raised) =>
    LET n == Len(pure.cands)
        pool == ~(pure.max_workers <= 1 \/ n = 1)
    IN /\ Len(pure.run.outcomes) = n
       /\ \A i \in 1..n :
            /\ pure.run.outcomes[i].paper_id = pure.cands[i].id
            /\ pure.run.outcomes[i].message
                 = (IF pure.pick[i].raised THEN "unexpected error"
                    ELSE pure.pick[i].message)
       /\ pure.run.executed = [i \in 1..n |-> pure.cands[i].id]
       /\ (pure.via = "batch" /\ ~pool) =>
            /\ Len(pure.callbacks) = 2 * n
            /\ \A i \in 1..n :
                 /\ pure.callbacks[2 * i - 1]
                      = [callback |-> "progress", paper_id |-> pure.cands[i].id]
                 /\ pure.callbacks[2 * i]
                      = [callback |-> "completion", paper_id |-> pure.cands[i].id]
       /\ (pure.via = "batch" /\ pool) =>
            /\ Len(pure.callbacks) = 2 * n
            /\ \A i \in 1..n :
                 /\ pure.callbacks[i]
                      = [callback |-> "progress", paper_id |-> pure.cands[i].id]
                 /\ pure.callbacks[n + i]
                      = [callback |-> "completion",
                         paper_id |-> pure.cands[pure.order[i]].id]

C27_Witness ==
  /\ pure.op = "batch_run" /\ pure.via = "batch" /\ ~pure.run.raised
  /\ pure.max_workers = 2
  /\ Len(pure.cands) = 2
  /\ pure.order = <<2, 1>>
  /\ pure.pick[1].success /\ ~pure.pick[2].success
  /\ pure.run.outcomes[1].paper_id = pure.cands[1].id
  /\ pure.run.outcomes[1].success /\ ~pure.run.outcomes[2].success
  /\ pure.callbacks[3] = [callback |-> "completion",
                          paper_id |-> pure.cands[2].id]

\* C28: process_pipeline_batch invokes the four primary batch runners
\* exactly once each, in the fixed order text extraction, scoring, citations,
\* pdf acquisition, each completing before the next starts and all with the
\* same resolved target level, and returns their outcomes under the keys
\* text, scoring, citations and pdf_acquisition.
C28_FourRunnersInOrder ==
  pure.op = "pipeline" =>
    LET lvl == IF pure.level # NoneInt THEN pure.level
               ELSE IF pure.cached_level \in {NoneInt, 0}
               THEN pure.lowest_level ELSE pure.cached_level
    IN /\ pure.ret.invoked
            = <<[stage |-> "text_extraction", level |-> lvl],
                [stage |-> "scoring", level |-> lvl],
                [stage |-> "citations", level |-> lvl],
                [stage |-> "pdf_acquisition", level |-> lvl]>>
       /\ Len(pure.ret.returned) = 1
       /\ DOMAIN pure.ret.returned[1]
            = {"text", "scoring", "citations", "pdf_acquisition"}

Stuck(row) ==
  /\ row.status \in {PDF_AVAILABLE, TEXT_AVAILABLE, SCORED}
  /\ row.attempts > MAX_PROCESSING_ATTEMPTS

\* no batch runner and no harness run selects the record
ExcludedFromBatches(p) ==
  \A stage \in StageNames, via \in BatchVias, batch_size \in 0..NumPapers :
    LET cands == Candidates(papers, stage, via, batch_size)
    IN \A i \in 1..Len(cands) : cands[i].id # p

\* C30: a record in PDF Available, Text Available or Scored whose persisted
\* attempts exceed MAX_PROCESSING_ATTEMPTS (reached by repeated charged
\* executions that leave the state unchanged) is excluded from every batch
\* run and is never marked Failed: no batch runner and no harness run changes
\* that record any more.
C30_StuckRecordStaysStuck ==
  /\ [](\A p \in Papers : Stuck(papers[p]) => ExcludedFromBatches(p))
  /\ [][\A p \in Papers : Stuck(papers[p]) => papers'[p] = papers[p]]_vars

C30_Witness ==
  /\ Stuck(papers[1])
  /\ papers[1].status = TEXT_AVAILABLE
  /\ papers[1].attempts = MAX_PROCESSING_ATTEMPTS + 1
  /\ invocations = MaxPasses
  /\ pure.op = "pass" /\ pure.stage = "scoring" /\ pure.executed = <<>>

\* the step of worker w that charges the attempt
Charges(w) == wk[w].pc = "selected" /\ wk'[w].pc = "charged"

\* C31: attempt charges are never lost: every charged stage execution raises
\* the persisted attempts of the record by one, so k charges without an
\* update_state in between leave the previous value plus k, also when two
\* workers hold the same snapshot of the record and charge it concurrently.
C31_ChargesNeverLost ==
  [][\A w \in Workers :
       Charges(w) =>
         papers'[wk[w].snap.id].attempts
           = papers[wk[w].snap.id].attempts + 1]_vars

\* the workers that hold row p between its submission and the end of its
\* stage function
WorkersOn(p) ==
  {w \in Workers : wk[w].pc \in {"selected", "charged"} /\ wk[w].snap.id = p}

\* C32: in a run with more than one worker thread that queries the candidate
\* pool again for every submission and picks one candidate of it, a record
\* that one worker is executing is never submitted to a second worker: at any
\* time each record is in flight in at most one worker.
C32_OneWorkerPerRecord ==
  \A p \in Papers : Cardinality(WorkersOn(p)) <= 1

\* C33: every record a PGX batch run sets to P1 WIP is resolved to P1 Success
\* or P1 Failure by that same run: a record is P1 WIP only while the run that
\* claimed it is still working on it, so none remains in P1 WIP once the run
\* has returned or an exception has left it (the attempt charge, the blob
\* fetch or the final update_state raising after the claim).
C33_NoRecordLeftInWip ==
  \A p \in Papers :
    papers[p].status = P1_WIP => \E r \in Runners : Holds(r, p)

\* What the repository answers when the same inserts are sent a second time:
\* a title whose row the first execution inserted is held by that row, so
\* the insert ends in a DuplicateTitleError; the other answers are as before.
answers_on_repeat(answers) ==
  [i \in DOMAIN answers |->
     IF answers[i] \in {"created", "papers_pkey"} THEN "duplicate"
     ELSE answers[i]]

\* C34: a stage function is idempotent on success: extract_citations executed
\* a second time on the same record snapshot, after it succeeded, leaves the
\* persisted record as the first execution left it (the same state and the
\* same citation_count in the metadata) and inserts no further child.
C34_CitationsIdempotentOnSuccess ==
  (pure.op = "extract_citations" /\ pure.ret.res.success) =>
    LET second == extract_citations_with(pure.row, pure.threshold,
                                         pure.citations,
                                         answers_on_repeat(pure.answers))
    IN /\ second.res = pure.ret.res
       /\ second.created = <<>>
       /\ second.citation_count = pure.ret.citation_count

\* the writes of a call log that go to the record the stage was handed
RecordWrites(log) == SelectSeq(log, LAMBDA c : c # "create_pdf_placeholder")

\* outcomes the stage functions return without touching the repository
SoftFailures ==
  {<<"pdf_acquisition", "fetch error">>, <<"pdf_acquisition", "pdf not found">>,
   <<"pdf_acquisition", "storage error">>,
   <<"citations", "paper below threshold">>, <<"citations", "paper missing text">>}

\* C35 (as stated): each stage function invocation issues at most one write
\* to the repository.
C35_AtMostOneRepositoryWrite ==
  pure.op \in {"extract_text", "extract_citations"} => Len(pure.ret.log) <= 1

\* C35 (amended): each invocation of fetch_pdf, extract_text, score_text or
\* extract_citations issues at most one write to the record it was handed
\* (update_state, save_text_reference or register_score) and none on a soft
\* failure; every other write of extract_text and extract_citations is a
\* create_pdf_placeholder insert, at most one per link or citation.
C35_AtMostOneRecordWrite ==
  /\ pure.op = "stage" =>
       /\ Len(pure.res.write) <= 1
       /\ <<pure.stage, pure.res.message>> \in SoftFailures =>
            pure.res.write = <<>> /\ pure.after = pure.row
  /\ pure.op = "extract_text" =>
       /\ Len(pure.ret.res.write) = 1
       /\ RecordWrites(pure.ret.log) = <<"save_text_reference">>
       /\ Len(pure.ret.log) <= 1 + Len(pure.links)
  /\ pure.op = "extract_citations" =>
       /\ Len(pure.ret.res.write) <= 1
       /\ Len(RecordWrites(pure.ret.log)) = Len(pure.ret.res.write)
       /\ Len(pure.ret.log) <= Len(pure.ret.res.write) + Len(pure.citations)
       /\ pure.ret.res.message \in {"paper below threshold", "paper missing text"}
            => pure.ret.log = <<>>

C35_Witness ==
  /\ pure.op = "extract_citations"
  /\ pure.ret.res.success
  /\ pure.ret.log = <<"create_pdf_placeholder", "create_pdf_placeholder", "update_state">>

\* C36: a stage's update merges into the metadata of the record instead of
\* replacing it: every metadata key the persisted record holds immediately
\* before fetch_pdf or extract_citations writes its success transition is
\* still on the record afterwards, also when another writer has changed the
\* persisted metadata since the stage took its snapshot.
C36_MetadataMergedNotReplaced ==
  (pure.op = "stale_stage" /\ pure.res.success /\ pure.res.applied) =>
    pure.persisted.metadata \subseteq pure.after.metadata

\* the stages of the pipeline from position i on, n of them
StagesFrom(i, n) == [k \in 1..n |-> STAGE_SEQUENCE[i + k - 1]]

\* stages_run is a run of consecutive stages of the pipeline that starts at
\* the stage of the state the call found the record in
InPipelineOrder(stages_run, started_state) ==
  stages_run = <<>> \/
    \E i \in 1..Len(STAGE_SEQUENCE) :
      /\ STATE_FOR_STAGE[STAGE_SEQUENCE[i]] = started_state
      /\ i + Len(stages_run) - 1 <= Len(STAGE_SEQUENCE)
      /\ stages_run = StagesFrom(i, Len(stages_run))

SingleReturned == pure.op = "single" /\ pure.pc = "returned"

\* C37: process_single_paper runs the stages of the record's successive
\* persisted states in pipeline order, at most four of them; it goes on only
\* after a successful stage other than citations; it charges one attempt per
\* stage it executes; it reports the success of the last stage run, and
\* false when no stage ran; and every call terminates.
C37_SingleRunsStagesInOrder ==
  /\ [](pure.op = "single" =>
          /\ InPipelineOrder(pure.stages_run, pure.started_state)
          /\ Len(pure.stages_run) <= 4
          /\ pure.pc # "raised" => pure.charges = Len(pure.stages_run)
          /\ pure.pc = "raised" => pure.charges = Len(pure.stages_run) - 1
          /\ pure.pc = "loop" =>
               /\ pure.record = papers[pure.record.id]
               /\ pure.stages_run # <<>> =>
                    /\ pure.success
                    /\ pure.stages_run[Len(pure.stages_run)] # "citations"
          /\ pure.pc = "returned" =>
               /\ pure.finished_state = papers[pure.record.id].status
               /\ pure.result_success = (pure.stages_run # <<>> /\ pure.success)
               /\ \/ pure.stages_run = <<>>
                     /\ stage_for_state(pure.started_state) = None
                  \/ pure.stages_run # <<>> /\ ~pure.success
                  \/ pure.stages_run # <<>>
                     /\ pure.stages_run[Len(pure.stages_run)] = "citations"
                  \/ pure.stages_run # <<>>
                     /\ stage_for_state(pure.finished_state) = None)
  /\ <>(pure.op = "single" /\ pure.pc \in {"returned", "raised"})

C37_Witness ==
  /\ SingleReturned
  /\ pure.stages_run = <<"text_extraction", "scoring">>
  /\ pure.result_success
  /\ pure.finished_state = PROCESSED_LOW_SCORE

FourStagesSucceeded ==
  /\ SingleReturned
  /\ pure.started_state = PDF_NOT_AVAILABLE
  /\ pure.stages_run = STAGE_SEQUENCE
  /\ pure.result_success

Transient(answer) ==
  answer \in {"server disconnected", "connection terminated", "connection reset",
              "remote protocol error", "goaway", "broken pipe"}

\* C39: _execute sends a request again only after a transient transport
\* error, at most MAX_TRANSIENT_RETRIES = 3 times, so at most 4 executions,
\* and then raises RepositoryError; a PostgrestAPIError ends the call at
\* once, mapped to DuplicateTopicError, DuplicateTitleError or
\* RepositoryError; any other exception ends it at once with RepositoryError.
C39_RetryOnlyTransient ==
  pure.op = "_execute" =>
    LET n == pure.ret.executions
        last == pure.answers[n]
    IN /\ n \in 1..(MAX_TRANSIENT_RETRIES + 1)
       /\ n <= 4
       /\ \A i \in 1..(n - 1) : Transient(pure.answers[i])
       /\ last = "ok" <=> pure.ret.raised = None
       /\ last = "postgrest" =>
            /\ pure.ret.raised \in
                 {"DuplicateTopicError", "DuplicateTitleError", "RepositoryError"}
            /\ pure.ret.raised = "DuplicateTopicError" =>
                 pure.error.code \in {None, "23505"} /\ "topic" \in pure.error.text
            /\ pure.ret.raised = "DuplicateTitleError" =>
                 pure.error.code \in {None, "23505"} /\ "title" \in pure.error.text
            /\ pure.error.code = "42501" => pure.ret.raised = "RepositoryError"
       /\ last \notin {"ok", "postgrest"} =>
            /\ pure.ret.raised = "RepositoryError"
            /\ Transient(last) => n = MAX_TRANSIENT_RETRIES + 1
       /\ ~Transient(pure.answers[1]) => n = 1

C39_Witness ==
  /\ pure.op = "_execute"
  /\ pure.ret.executions = 4
  /\ pure.answers[4] = "server disconnected"
  /\ pure.ret.raised = "RepositoryError"

\* the level a call resolves, said from its inputs
Resolved(level, cached_level, lowest_level) ==
  CASE level # NoneInt -> level
    [] level = NoneInt /\ cached_level \notin {NoneInt, 0} -> cached_level
    [] OTHER -> lowest_level

\* C40 (as stated): successive invocations with level = None keep using the
\* level the first one resolved and never query the lowest active level
\* again.
C40_FirstLevelKept ==
  (pure.op = "levels" /\ pure.level1 = NoneInt /\ pure.level2 = NoneInt) =>
    pure.second = pure.first /\ ~pure.queried2

\* C40 (amended): each invocation resolves the explicit level when given,
\* otherwise the cached level when it is set and not 0, otherwise the lowest
\* active level, and stores the resolved level in the cache.  Successive
\* invocations with level = None keep the level the first one resolved, and
\* do not query again, exactly when that level is not 0; after a resolved
\* level of 0 the next invocation queries the lowest active level again and
\* uses its answer.
C40_FirstNonZeroLevelKept ==
  pure.op = "levels" =>
    /\ pure.first = Resolved(pure.level1, pure.cached_level, pure.lowest1)
    /\ pure.second = Resolved(pure.level2, pure.cache1, pure.lowest2)
    /\ pure.cache1 = pure.first /\ pure.cache2 = pure.second
    /\ (pure.level1 = NoneInt /\ pure.level2 = NoneInt) =>
         /\ pure.first # 0 => pure.second = pure.first /\ ~pure.queried2
         /\ pure.first = 0 => pure.second = pure.lowest2 /\ pure.queried2

C40_Witness ==
  /\ pure.op = "levels"
  /\ pure.level1 = NoneInt /\ pure.level2 = NoneInt
  /\ pure.cached_level = NoneInt
  /\ pure.first = 1 /\ pure.lowest2 = 2 /\ pure.second = 1

====
